---- MODULE Spec2Model ----
(***************************************************************************)
(* Model of cpuix/multigit: the SSH alias document (~/.ssh/config) managed *)
(* by internal/ssh/ssh.go and the account store (config.json) managed by   *)
(* internal/multigit/account.go.                                           *)
(*                                                                         *)
(* File contents are modelled as the strings the Go code reads and writes, *)
(* so that strings.Split / Contains / HasPrefix / TrimSpace are computed   *)
(* on the real text.                                                       *)
(***************************************************************************)
EXTENDS Integers, Sequences, FiniteSets, TLC

-----------------------------------------------------------------------------
(* Bounds                                                                  *)

\* number of calls made in a run
MaxCalls == 4

\* number of calls made in a run that takes the calls step by step
MaxStepCalls == 2

\* number of edits other writers make to the alias document in a run
MaxExternalEdits == 1

\* number of commands run in a run
MaxStoreCalls == 2

\* number of SaveConfig / LoadConfig calls made in a run
MaxRoundTripCalls == 4

\* the account names the operations are called with: "w" is a prefix of
\* "wk", and "hub" occurs in the host "github.com" of every block; "w" and
\* "wk" occur nowhere in the fixed text of a block.  The commands accept any
\* string as an account name.
AllNames == <<"w", "wk", "hub">>

AccountNames == {AllNames[i] : i \in 1..Len(AllNames)}

-----------------------------------------------------------------------------
(* Go strings package, on TLA+ strings                                     *)

Min(S) == CHOOSE i \in S : \A j \in S : i <= j

Max(S) == CHOOSE i \in S : \A j \in S : i >= j

CharAt(s, i) == SubSeq(s, i, i)

HasPrefix(s, prefix) ==
    /\ Len(prefix) <= Len(s)
    /\ SubSeq(s, 1, Len(prefix)) = prefix

Contains(s, substr) ==
    \E i \in 1..(Len(s) - Len(substr) + 1) : SubSeq(s, i, i + Len(substr) - 1) = substr

IsSpace(c) == c \in {" ", "\t", "\n", "\r"}

RECURSIVE TrimLeft(_)
TrimLeft(s) ==
    IF Len(s) > 0 /\ IsSpace(CharAt(s, 1)) THEN TrimLeft(SubSeq(s, 2, Len(s))) ELSE s

RECURSIVE TrimRight(_)
TrimRight(s) ==
    IF Len(s) > 0 /\ IsSpace(CharAt(s, Len(s))) THEN TrimRight(SubSeq(s, 1, Len(s) - 1)) ELSE s

TrimSpace(s) == TrimRight(TrimLeft(s))

RECURSIVE IndexFrom(_, _, _)
\* the first position at or after i where s holds the character c, 0 if none
IndexFrom(s, c, i) ==
    IF i > Len(s) THEN 0
    ELSE IF CharAt(s, i) = c THEN i
    ELSE IndexFrom(s, c, i + 1)

RECURSIVE Split(_)
\* strings.Split(s, "\n")
Split(s) ==
    LET nl == IndexFrom(s, "\n", 1)
    IN  IF nl = 0 THEN <<s>>
        ELSE <<SubSeq(s, 1, nl - 1)>> \o Split(SubSeq(s, nl + 1, Len(s)))

RECURSIVE Join(_)
\* strings.Join(lines, "\n")
Join(lines) ==
    IF Len(lines) = 0 THEN ""
    ELSE IF Len(lines) = 1 THEN lines[1]
    ELSE lines[1] \o "\n" \o Join(Tail(lines))

RECURSIVE TrimTrailingBlank(_)
\* for len(l) > 0 && strings.TrimSpace(l[len(l)-1]) == "" { l = l[:len(l)-1] }
TrimTrailingBlank(lines) ==
    IF Len(lines) > 0 /\ TrimSpace(lines[Len(lines)]) = ""
    THEN TrimTrailingBlank(SubSeq(lines, 1, Len(lines) - 1))
    ELSE lines

-----------------------------------------------------------------------------
(* Files                                                                   *)

NoFile == [exists |-> FALSE, data |-> ""]

File(data) == [exists |-> TRUE, data |-> data]

HomeDir == "/h"

sshDir == HomeDir \o "/.ssh"

rsaKeyFile(accountName) == sshDir \o "/id_rsa_" \o accountName

ed25519KeyFile(accountName) == sshDir \o "/id_ed25519_" \o accountName

-----------------------------------------------------------------------------
(* internal/ssh/ssh.go: the alias document                                 *)

hostPatternOf(accountName) == "github.com-" \o accountName

BeginMarker == "# Multigit managed config for "

EndMarker == "# End of Multigit config for "

hostEntry(accountName, privateKeyFile) ==
    "\n" \o BeginMarker \o accountName \o "\n"
    \o "Host " \o hostPatternOf(accountName) \o "\n"
    \o "\tHostName github.com\n"
    \o "\tUser git\n"
    \o "\tIdentityFile " \o privateKeyFile \o "\n"
    \o "\tIdentitiesOnly yes\n"
    \o EndMarker \o accountName \o "\n"

\* containsHost without its "\nHost" case: only a document starting with the
\* Host line is recognised
containsHost_FirstLineOnly(configData, host) ==
    HasPrefix(configData, "Host " \o host)

containsHost(configData, host) ==
    \/ Contains(configData, "\nHost " \o host)
    \/ HasPrefix(configData, "Host " \o host)

\* one iteration of the loop of removeHostEntry over lines[i]
removeHostEntryStep(st, rawLine, hostPattern) ==
    LET line == TrimSpace(rawLine) IN
    IF HasPrefix(line, BeginMarker) /\ (hostPattern = "" \/ Contains(line, hostPattern))
    THEN [st EXCEPT !.inMultigitBlock = TRUE, !.multigitBlockStart = Len(st.result)]
    ELSE IF st.inMultigitBlock /\ HasPrefix(line, EndMarker)
            /\ (hostPattern = "" \/ Contains(line, hostPattern))
    THEN [st EXCEPT !.inMultigitBlock = FALSE]
    ELSE IF st.inMultigitBlock
    THEN st
    ELSE LET isHost == HasPrefix(line, "Host ")
             match  == isHost /\ hostPattern # "" /\ Contains(line, hostPattern)
             inHost == IF isHost THEN match ELSE st.inHostBlock
         IN  IF match THEN [st EXCEPT !.inHostBlock = TRUE]
             ELSE IF ~inHost
                  THEN [st EXCEPT !.inHostBlock = inHost, !.result = Append(st.result, rawLine)]
                  ELSE [st EXCEPT !.inHostBlock = inHost]

RECURSIVE removeHostEntryLoop(_, _, _, _)
removeHostEntryLoop(st, lines, i, hostPattern) ==
    IF i > Len(lines) THEN st
    ELSE removeHostEntryLoop(removeHostEntryStep(st, lines[i], hostPattern),
                             lines, i + 1, hostPattern)

removeHostEntry(configData, hostPattern) ==
    LET lines == Split(configData)
        st0   == [result |-> <<>>, inHostBlock |-> FALSE,
                  inMultigitBlock |-> FALSE, multigitBlockStart |-> -1]
        st    == removeHostEntryLoop(st0, lines, 1, hostPattern)
        cut   == IF st.inMultigitBlock /\ st.multigitBlockStart >= 0
                    /\ st.multigitBlockStart < Len(st.result)
                 THEN SubSeq(st.result, 1, st.multigitBlockStart)
                 ELSE st.result
    IN  Join(TrimTrailingBlank(cut))

\* AddSSHConfigEntry, lines 320-331: the key file named in the new block
selectKeyFile(keys, accountName) ==
    IF rsaKeyFile(accountName) \in keys THEN rsaKeyFile(accountName)
    ELSE IF ed25519KeyFile(accountName) \in keys THEN ed25519KeyFile(accountName)
    ELSE ""

\* AddSSHConfigEntry, lines 333-340: a missing document reads as no bytes
readExisting(cfg) == IF cfg.exists THEN cfg.data ELSE ""

\* AddSSHConfigEntry, line 369: the bytes written to the temp file
addUpdatedConfig(configData, accountName, privateKeyFile) ==
    configData \o hostEntry(accountName, privateKeyFile)

\* RemoveSSHConfigEntry, lines 565-569: is there anything to remove
entryExists(configStr, accountName) ==
    \/ containsHost(configStr, hostPatternOf(accountName))
    \/ Contains(configStr, BeginMarker \o accountName)

\* RemoveSSHConfigEntry, lines 578-596: the bytes written to the temp file
removeUpdatedConfig(configStr, accountName) ==
    LET byHost   == removeHostEntry(configStr, hostPatternOf(accountName))
        byName   == IF Contains(byHost, accountName)
                    THEN removeHostEntry(byHost, accountName)
                    ELSE byHost
        trimmed  == Join(TrimTrailingBlank(Split(byName)))
    IN  IF trimmed # "" THEN trimmed \o "\n" ELSE trimmed

\* the file operations of a mutating call that runs to its end
MutatingIO == <<"write backup", "write temp", "rename", "remove backup">>

\* AddSSHConfigEntry run to completion on a working filesystem
AddOutcome(cfg, keys, accountName) ==
    LET privateKeyFile == selectKeyFile(keys, accountName)
        configData     == readExisting(cfg)
    IN  IF privateKeyFile = ""
        THEN [err |-> "no SSH key found", config |-> cfg, io |-> <<>>]
        ELSE IF containsHost(configData, hostPatternOf(accountName))
        THEN [err |-> "already exists", config |-> cfg, io |-> <<>>]
        ELSE [err |-> "",
              config |-> File(addUpdatedConfig(configData, accountName, privateKeyFile)),
              io |-> MutatingIO]

\* RemoveSSHConfigEntry run to completion on a working filesystem
RemoveOutcome(cfg, accountName) ==
    IF ~cfg.exists
    THEN [err |-> "", config |-> cfg, io |-> <<>>]
    ELSE IF ~entryExists(cfg.data, accountName)
    THEN [err |-> "", config |-> cfg, io |-> <<>>]
    ELSE [err |-> "",
          config |-> File(removeUpdatedConfig(cfg.data, accountName)),
          io |-> MutatingIO]

-----------------------------------------------------------------------------
(* internal/ssh/ssh.go: key files and the agent                            *)

sshConfigFile == sshDir \o "/config"

\* CreateSSHKey, lines 120-151: the path of the private key; an empty key
\* type is ED25519, a given keyFile is used as it is
keyFilePath(accountName, keyFile, keyType) ==
    IF keyFile # "" THEN keyFile
    ELSE IF keyType = "rsa" THEN rsaKeyFile(accountName)
    ELSE IF keyType \in {"", "ed25519"} THEN ed25519KeyFile(accountName)
    ELSE ""

\* no private key was written
NoPEM == [Type |-> "", Headers |-> {}]

\* CreateSSHKey, lines 162-165 and 196-199: the pem.Block of the private
\* key, given by its type and the names of its headers; neither branch
\* sets a header
privateKeyPEM(keyType) ==
    [Type |-> IF keyType = "rsa" THEN "RSA PRIVATE KEY" ELSE "OPENSSH PRIVATE KEY",
     Headers |-> {}]

\* x509.IsEncryptedPEMBlock: an encrypted block carries a DEK-Info header
IsEncryptedPEMBlock(b) == "DEK-Info" \in b.Headers

\* a key generation that writes the private key before it looks at the key
\* type
CreateSSHKeyOutcome_WritesThenRejects(keys, accountName, keyFile, keyType, fault) ==
    LET path == IF keyFile # "" THEN keyFile ELSE ed25519KeyFile(accountName) IN
    IF keyType \notin {"", "rsa", "ed25519"}
    THEN [err |-> "unsupported key type", keys |-> keys \cup {path}, wrote |-> {path},
          pem |-> privateKeyPEM(keyType)]
    ELSE [err |-> "", keys |-> keys \cup {path, path \o ".pub"},
          wrote |-> {path, path \o ".pub"}, pem |-> privateKeyPEM(keyType)]

\* CreateSSHKey: the private key is written first, then the public key to
\* the same path with ".pub"; a failed write ends the call.  os.WriteFile
\* replaces a file that is there: wrote holds the files written
CreateSSHKeyOutcome(keys, accountName, keyFile, keyType, fault) ==
    LET path == keyFilePath(accountName, keyFile, keyType) IN
    IF keyType \notin {"", "rsa", "ed25519"}
    THEN [err |-> "unsupported key type", keys |-> keys, wrote |-> {}, pem |-> NoPEM]
    ELSE IF fault = "write private key"
    THEN [err |-> "failed to write private key", keys |-> keys, wrote |-> {},
          pem |-> NoPEM]
    ELSE IF fault = "write public key"
    THEN [err |-> "failed to write public key", keys |-> keys \cup {path},
          wrote |-> {path}, pem |-> privateKeyPEM(keyType)]
    ELSE [err |-> "", keys |-> keys \cup {path, path \o ".pub"},
          wrote |-> {path, path \o ".pub"}, pem |-> privateKeyPEM(keyType)]

\* DefaultSSH.CreateSSHKey, ssh_interface.go lines 26-28: the passphrase is
\* handed to CreateSSHKey as its third argument, which is keyFile
DefaultSSHCreateSSHKey(keys, accountName, passphrase, keyType, fault) ==
    CreateSSHKeyOutcome(keys, accountName, passphrase, keyType, fault)

\* AddSSHKeyToAgent, lines 267-278: an argument that looks like a path is
\* the key file, any other is an account name with an ED25519 key
agentKeyFile(accountOrKeyFile) ==
    IF \/ HasPrefix(accountOrKeyFile, "/")
       \/ HasPrefix(accountOrKeyFile, ".")
       \/ Contains(accountOrKeyFile, "/")
    THEN accountOrKeyFile
    ELSE ed25519KeyFile(accountOrKeyFile)

\* AddSSHKeyToAgent: the key file must exist, the agent must run, ssh-add
\* must succeed
AddSSHKeyToAgentOutcome(keys, agent, accountOrKeyFile, fault) ==
    LET privateKeyFile == agentKeyFile(accountOrKeyFile) IN
    IF privateKeyFile \notin keys
    THEN [err |-> "private key file does not exist", agent |-> agent]
    ELSE IF fault = "no agent"
    THEN [err |-> "SSH agent is not running", agent |-> agent]
    ELSE IF fault = "ssh-add"
    THEN [err |-> "failed to add key to SSH agent", agent |-> agent]
    ELSE [err |-> "", agent |-> agent \cup {privateKeyFile}]

\* DeleteSSHKeyFile: the files removed are the key file and its ".pub",
\* those of the two that exist
DeleteSSHKeyFile(files, keyFile) == {keyFile, keyFile \o ".pub"} \cap files

\* the entries of ~/.ssh: the files directly in that directory
InSSHDir(path) ==
    /\ HasPrefix(path, sshDir \o "/")
    /\ ~Contains(SubSeq(path, Len(sshDir) + 2, Len(path)), "/")

EntryName(path) == SubSeq(path, Len(sshDir) + 2, Len(path))

\* filepath.Base of an argument that holds no "/"
Base(accountOrKeyFile) == IF accountOrKeyFile = "" THEN "." ELSE accountOrKeyFile

\* DeleteSSHKey, lines 383-482: the files removed.  An argument that names
\* an existing file is removed as a key file; otherwise every entry of
\* ~/.ssh whose name contains the account name, and the files of the
\* standard patterns, are removed with their ".pub"
DeleteSSHKey(files, accountOrKeyFile) ==
    IF accountOrKeyFile \in files
    THEN DeleteSSHKeyFile(files, accountOrKeyFile)
    ELSE LET accountName == Base(accountOrKeyFile)
             entries  == {f \in files : InSSHDir(f) /\ Contains(EntryName(f), accountName)}
             patterns == {rsaKeyFile(accountOrKeyFile), ed25519KeyFile(accountOrKeyFile),
                          sshDir \o "/" \o accountOrKeyFile,
                          rsaKeyFile(accountName), ed25519KeyFile(accountName),
                          sshDir \o "/" \o accountName}
             keyFileList == entries \cup patterns \cup {p \o ".pub" : p \in patterns}
         IN  UNION {DeleteSSHKeyFile(files, f) : f \in keyFileList \cap files}

-----------------------------------------------------------------------------
(* internal/multigit/account.go: the account store                         *)

\* JSON values.  The bytes of config.json are modelled by the JSON value
\* they denote; a file whose bytes are no JSON text is Malformed below.
JNull == [t |-> "null"]

JString(s) == [t |-> "string", s |-> s]

JBool(b) == [t |-> "bool", b |-> b]

JObject(members) == [t |-> "object", o |-> members]

NoEntries == [k \in {} |-> JNull]

\* a member of a JSON object; a missing member leaves the Go field at its
\* zero value, as null does
Member(j, key) == IF key \in DOMAIN j.o THEN j.o[key] ELSE JNull

\* a Go map: nil, or made and holding the entries m
NilMap == [nil |-> TRUE, m |-> NoEntries]

MakeMap == [nil |-> FALSE, m |-> NoEntries]

MapOf(m) == [nil |-> FALSE, m |-> [k \in DOMAIN m |-> m[k]]]

\* a lookup that finds no key
Exists_Never(map, key) == FALSE

\* _, exists := map[key]
Exists(map, key) == key \in DOMAIN map.m

\* an assignment that stores nothing
MapPut_NoInsert(map, key, value) == [nil |-> FALSE, m |-> map.m]

\* map[key] = value, on a map that is not nil
MapPut(map, key, value) ==
    [nil |-> FALSE,
     m |-> [k \in DOMAIN map.m \cup {key} |-> IF k = key THEN value ELSE map.m[k]]]

\* a delete that removes nothing
MapDelete_KeepsKey(map, key) == map

\* delete(map, key)
MapDelete(map, key) ==
    [nil |-> map.nil, m |-> [k \in DOMAIN map.m \ {key} |-> map.m[k]]]

Account(name, email) == [Name |-> name, Email |-> email]

Profile(name, accounts) == [Name |-> name, Accounts |-> accounts]

Config(accounts, activeAccount, profiles, activeProfile) ==
    [Accounts |-> accounts, ActiveAccount |-> activeAccount,
     Profiles |-> profiles, ActiveProfile |-> activeProfile]

\* var config Config
ZeroConfig == Config(NilMap, "", NilMap, "")

NewConfig == Config(MakeMap, "", MakeMap, "")

\* json.Marshal of a map is null for a nil map, else an object
MarshalAccount(a) ==
    JObject([name |-> JString(a.Name), email |-> JString(a.Email)])

\* Profile.Accounts, map[string]bool
MarshalEnabled(map) ==
    IF map.nil THEN JNull ELSE JObject([k \in DOMAIN map.m |-> JBool(map.m[k])])

MarshalProfile(p) ==
    JObject([name |-> JString(p.Name), accounts |-> MarshalEnabled(p.Accounts)])

\* Config.Accounts, map[string]Account
MarshalAccounts(map) ==
    IF map.nil THEN JNull ELSE JObject([k \in DOMAIN map.m |-> MarshalAccount(map.m[k])])

\* Config.Profiles, map[string]Profile
MarshalProfiles(map) ==
    IF map.nil THEN JNull ELSE JObject([k \in DOMAIN map.m |-> MarshalProfile(map.m[k])])

\* json.MarshalIndent(config): the struct tags name the members
Marshal(config) ==
    JObject([accounts       |-> MarshalAccounts(config.Accounts),
             active_account |-> JString(config.ActiveAccount),
             profiles       |-> MarshalProfiles(config.Profiles),
             active_profile |-> JString(config.ActiveProfile)])

Decoded(v) == [ok |-> TRUE, v |-> v]

TypeError(zero) == [ok |-> FALSE, v |-> zero]

\* json.Unmarshal into a string, a bool, a map and the structs: null leaves
\* the zero value (a nil map), a value of another JSON type is an error
UnmarshalString(j) ==
    IF j.t = "null" THEN Decoded("")
    ELSE IF j.t = "string" THEN Decoded(j.s)
    ELSE TypeError("")

UnmarshalBool(j) ==
    IF j.t = "null" THEN Decoded(FALSE)
    ELSE IF j.t = "bool" THEN Decoded(j.b)
    ELSE TypeError(FALSE)

UnmarshalAccount(j) ==
    IF j.t = "null" THEN Decoded(Account("", ""))
    ELSE IF j.t = "object"
    THEN LET name  == UnmarshalString(Member(j, "name"))
             email == UnmarshalString(Member(j, "email"))
         IN  [ok |-> name.ok /\ email.ok, v |-> Account(name.v, email.v)]
    ELSE TypeError(Account("", ""))

\* Profile.Accounts, map[string]bool
UnmarshalEnabled(j) ==
    IF j.t = "null" THEN Decoded(NilMap)
    ELSE IF j.t = "object"
    THEN [ok |-> \A k \in DOMAIN j.o : UnmarshalBool(j.o[k]).ok,
          v  |-> MapOf([k \in DOMAIN j.o |-> UnmarshalBool(j.o[k]).v])]
    ELSE TypeError(NilMap)

UnmarshalProfile(j) ==
    IF j.t = "null" THEN Decoded(Profile("", NilMap))
    ELSE IF j.t = "object"
    THEN LET name     == UnmarshalString(Member(j, "name"))
             accounts == UnmarshalEnabled(Member(j, "accounts"))
         IN  [ok |-> name.ok /\ accounts.ok, v |-> Profile(name.v, accounts.v)]
    ELSE TypeError(Profile("", NilMap))

\* Config.Accounts, map[string]Account
UnmarshalAccounts(j) ==
    IF j.t = "null" THEN Decoded(NilMap)
    ELSE IF j.t = "object"
    THEN [ok |-> \A k \in DOMAIN j.o : UnmarshalAccount(j.o[k]).ok,
          v  |-> MapOf([k \in DOMAIN j.o |-> UnmarshalAccount(j.o[k]).v])]
    ELSE TypeError(NilMap)

\* Config.Profiles, map[string]Profile
UnmarshalProfiles(j) ==
    IF j.t = "null" THEN Decoded(NilMap)
    ELSE IF j.t = "object"
    THEN [ok |-> \A k \in DOMAIN j.o : UnmarshalProfile(j.o[k]).ok,
          v  |-> MapOf([k \in DOMAIN j.o |-> UnmarshalProfile(j.o[k]).v])]
    ELSE TypeError(NilMap)

\* json.Unmarshal(data, &config), config being the zero Config
Unmarshal(j) ==
    IF j.t = "null" THEN Decoded(ZeroConfig)
    ELSE IF j.t = "object"
    THEN LET accounts      == UnmarshalAccounts(Member(j, "accounts"))
             activeAccount == UnmarshalString(Member(j, "active_account"))
             profiles      == UnmarshalProfiles(Member(j, "profiles"))
             activeProfile == UnmarshalString(Member(j, "active_profile"))
         IN  [ok |-> accounts.ok /\ activeAccount.ok /\ profiles.ok /\ activeProfile.ok,
              v  |-> Config(accounts.v, activeAccount.v, profiles.v, activeProfile.v)]
    ELSE TypeError(ZeroConfig)

\* ~/.config/multigit/config.json: missing, holding bytes that are no JSON
\* text, or holding a JSON value
NoConfigFile == [exists |-> FALSE, parses |-> FALSE, json |-> JNull]

Malformed == [exists |-> TRUE, parses |-> FALSE, json |-> JNull]

ConfigFileOf(j) == [exists |-> TRUE, parses |-> TRUE, json |-> j]

\* a load that leaves the maps of the parsed document as they are
LoadConfig_KeepNil(file, readable) ==
    IF ~file.exists THEN NewConfig
    ELSE IF ~readable THEN NewConfig
    ELSE IF ~file.parses THEN NewConfig
    ELSE LET r == Unmarshal(file.json) IN
         IF ~r.ok THEN NewConfig ELSE r.v

\* a load that returns what json.Unmarshal left in config when it failed
LoadConfig_KeepOnError(file, readable) ==
    IF ~file.exists THEN NewConfig
    ELSE IF ~readable THEN NewConfig
    ELSE IF ~file.parses THEN NewConfig
    ELSE LET r == Unmarshal(file.json) IN
         [r.v EXCEPT !.Accounts = IF r.ok /\ @.nil THEN MakeMap ELSE @,
                     !.Profiles = IF r.ok /\ @.nil THEN MakeMap ELSE @]

\* LoadConfig, lines 166-201: a missing, unreadable or unparsable file gives
\* NewConfig; nil maps of a parsed document are made
LoadConfig(file, readable) ==
    IF ~file.exists THEN NewConfig
    ELSE IF ~readable THEN NewConfig
    ELSE IF ~file.parses THEN NewConfig
    ELSE LET r == Unmarshal(file.json) IN
         IF ~r.ok THEN NewConfig
         ELSE [r.v EXCEPT !.Accounts = IF @.nil THEN MakeMap ELSE @,
                          !.Profiles = IF @.nil THEN MakeMap ELSE @]

\* SaveConfigToFile, lines 220-232: an active profile or account that is not
\* a key of its map is cleared
EnsureActiveExists(config) ==
    [config EXCEPT
        !.ActiveProfile = IF @ # "" /\ ~Exists(config.Profiles, @) THEN "" ELSE @,
        !.ActiveAccount = IF @ # "" /\ ~Exists(config.Accounts, @) THEN "" ELSE @]

\* the document marshalled as it was handed in
SaveConfigToFile_NoClearing(config) == ConfigFileOf(Marshal(config))

\* SaveConfigToFile, lines 213-246: the file a successful save leaves
SaveConfigToFile(config) == ConfigFileOf(Marshal(EnsureActiveExists(config)))

\* SaveConfig with its failures: the directory cannot be made (the file
\* stays as it was), os.WriteFile cannot open the file (it stays as it was),
\* or the write is cut short (os.WriteFile has truncated the file and the
\* bytes are no JSON text)
SaveOutcome(file, config, fault) ==
    IF fault = "mkdir config"
    THEN [err |-> "failed to create config directory", file |-> file]
    ELSE IF fault = "open config"
    THEN [err |-> "failed to write config file", file |-> file]
    ELSE IF fault = "write config"
    THEN [err |-> "failed to write config file", file |-> Malformed]
    ELSE [err |-> "", file |-> SaveConfigToFile(config)]

-----------------------------------------------------------------------------
(* State                                                                   *)

VARIABLES
    sshConfig,   \* ~/.ssh/config
    backupFile,  \* ~/.ssh/config.multigit.bak
    tempFile,    \* ~/.ssh/config.tmp
    keyFiles,    \* the paths of the files present in ~/.ssh besides the above
    call,        \* the last call made: operation, argument, outcome, the
                 \* document before it and the file operations it performed
    calls,       \* the number of calls made so far
    proc,        \* the call in progress, when its steps are taken one by one
    external,    \* the number of edits made to the document by other writers
    configFile,  \* ~/.config/multigit/config.json
    agentKeys,   \* the key files registered with the SSH agent
    gitConfig,   \* git's global configuration, the keys the commands set
    store        \* the last command or store call: arguments, the failure it
                 \* met, outcome, config.json before it, the document it
                 \* loaded, the document it held at its end, the operations
                 \* it invoked and the key files it wrote

storeVars == <<configFile, agentKeys, gitConfig, store>>

vars == <<sshConfig, backupFile, tempFile, keyFiles, call, calls, proc, external,
          configFile, agentKeys, gitConfig, store>>

\* no call in progress
Idle == [pc |-> "idle", op |-> "none", name |-> "", before |-> NoFile,
         configData |-> "", updatedConfig |-> "", err |-> "", io |-> <<>>,
         raced |-> FALSE]

NoCall == [op |-> "none", name |-> "", err |-> "", before |-> NoFile, io |-> <<>>]

NoStoreCall ==
    [op |-> "none", name |-> "", fault |-> "none", err |-> "", before |-> NoConfigFile,
     loaded |-> ZeroConfig, config |-> ZeroConfig, saved |-> FALSE,
     email |-> "", steps |-> <<>>, wrote |-> {}]

GitKeys == {"user.name", "user.email", "core.sshCommand", "push.default"}

NoGitConfig == [k \in GitKeys |-> ""]

\* a stanza written by the user, not by the tool
UserStanza == "Host other.com\n\tUser me\n"

\* an entry in the format written before the markers were introduced
LegacyEntry(accountName) ==
    "Host " \o hostPatternOf(accountName) \o "\n"
    \o "\tHostName github.com\n"
    \o "\tIdentityFile " \o rsaKeyFile(accountName) \o "\n"

\* the documents a run starts from
ToolWrittenDocs == {NoFile, File("")}

UserWrittenDocs ==
    { File(UserStanza),
      File("Host other.com\n\tUser me"),
      File(UserStanza \o "\n\n"),
      File(hostEntry(AllNames[1], ed25519KeyFile(AllNames[1])) \o UserStanza),
      File(LegacyEntry(AllNames[1]) \o UserStanza) }

InitialDocs == ToolWrittenDocs \cup UserWrittenDocs

\* the key files of one name: kind 0 none, 1 RSA, 2 ED25519, 3 both
KeysOfKind(accountName, kind) ==
    (IF kind \in {1, 3}
     THEN {rsaKeyFile(accountName), rsaKeyFile(accountName) \o ".pub"} ELSE {})
    \cup
    (IF kind \in {2, 3}
     THEN {ed25519KeyFile(accountName), ed25519KeyFile(accountName) \o ".pub"} ELSE {})

\* the key files a run starts with: every name with an ED25519 key, or the
\* names with none, RSA, ED25519, both in turn
KeyLayouts ==
    { UNION {KeysOfKind(n, 2) : n \in AccountNames},
      UNION {KeysOfKind(AllNames[i], (i - 1) % 4) : i \in 1..Len(AllNames)} }

Init ==
    /\ sshConfig \in InitialDocs
    /\ backupFile = NoFile
    /\ tempFile = NoFile
    /\ keyFiles \in KeyLayouts
    /\ call = NoCall
    /\ calls = 0
    /\ proc = Idle
    /\ external = 0
    /\ configFile = NoConfigFile
    /\ agentKeys = {}
    /\ gitConfig = NoGitConfig
    /\ store = NoStoreCall

AddSSHConfigEntry(accountName) ==
    /\ calls < MaxCalls
    /\ calls' = calls + 1
    /\ LET r == AddOutcome(sshConfig, keyFiles, accountName) IN
       /\ sshConfig' = r.config
       /\ call' = [op |-> "AddSSHConfigEntry", name |-> accountName, err |-> r.err,
                   before |-> sshConfig, io |-> r.io]
    /\ UNCHANGED <<backupFile, tempFile, keyFiles, proc, external>>
    /\ UNCHANGED storeVars

RemoveSSHConfigEntry(accountName) ==
    /\ calls < MaxCalls
    /\ calls' = calls + 1
    /\ LET r == RemoveOutcome(sshConfig, accountName) IN
       /\ sshConfig' = r.config
       /\ call' = [op |-> "RemoveSSHConfigEntry", name |-> accountName, err |-> r.err,
                   before |-> sshConfig, io |-> r.io]
    /\ UNCHANGED <<backupFile, tempFile, keyFiles, proc, external>>
    /\ UNCHANGED storeVars

Next ==
    \/ \E n \in AccountNames : AddSSHConfigEntry(n)
    \/ \E n \in AccountNames : RemoveSSHConfigEntry(n)

Spec == Init /\ [][Next]_vars

-----------------------------------------------------------------------------
(* AddSSHConfigEntry and RemoveSSHConfigEntry, one file operation at a time *)

\* what a failed or interrupted os.WriteFile(path, data) can leave at path:
\* the file as it was (open failed), or a truncated file holding a proper
\* prefix of data
PartialWrites(old, data) ==
    {old} \cup {File(SubSeq(data, 1, k)) : k \in {0, Len(data) \div 2}}

\* the call returns err to its caller
Return(err, io) ==
    /\ call' = [op |-> proc.op, name |-> proc.name, err |-> err,
                before |-> proc.before, io |-> io]
    /\ proc' = Idle

\* AddSSHConfigEntry, lines 312-331: look for the key files of the account
BeginAdd(accountName) ==
    /\ proc.pc = "idle"
    /\ calls < MaxStepCalls
    /\ calls' = calls + 1
    /\ IF selectKeyFile(keyFiles, accountName) = ""
       THEN /\ call' = [op |-> "AddSSHConfigEntry", name |-> accountName,
                        err |-> "no SSH key found", before |-> sshConfig, io |-> <<>>]
            /\ proc' = Idle
       ELSE /\ proc' = [Idle EXCEPT !.pc = "read", !.op = "AddSSHConfigEntry",
                                    !.name = accountName, !.before = sshConfig]
            /\ UNCHANGED call
    /\ UNCHANGED <<sshConfig, backupFile, tempFile, keyFiles, external>>
    /\ UNCHANGED storeVars

\* RemoveSSHConfigEntry, lines 543-549
BeginRemove(accountName) ==
    /\ proc.pc = "idle"
    /\ calls < MaxStepCalls
    /\ calls' = calls + 1
    /\ proc' = [Idle EXCEPT !.pc = "read", !.op = "RemoveSSHConfigEntry",
                            !.name = accountName, !.before = sshConfig]
    /\ UNCHANGED <<sshConfig, backupFile, tempFile, keyFiles, call, external>>
    /\ UNCHANGED storeVars

\* lines 333-347 and 551-569: stat and read the document, then decide
\* whether there is anything to write
ReadConfig ==
    /\ proc.pc = "read"
    /\ \E readOk \in BOOLEAN :
        IF proc.op = "AddSSHConfigEntry"
        THEN LET configData == readExisting(sshConfig) IN
             IF sshConfig.exists /\ ~readOk
             THEN Return("failed to read SSH config file", <<>>)
             ELSE IF containsHost(configData, hostPatternOf(proc.name))
             THEN Return("already exists", <<>>)
             ELSE /\ proc' = [proc EXCEPT !.pc = "backup", !.configData = configData,
                                !.updatedConfig = addUpdatedConfig(configData, proc.name,
                                                      selectKeyFile(keyFiles, proc.name))]
                  /\ UNCHANGED call
        ELSE IF ~sshConfig.exists
             THEN Return("", <<>>)
             ELSE IF ~readOk
             THEN Return("failed to read SSH config file", <<>>)
             ELSE IF ~entryExists(sshConfig.data, proc.name)
             THEN Return("", <<>>)
             ELSE /\ proc' = [proc EXCEPT !.pc = "backup", !.configData = sshConfig.data,
                                !.updatedConfig = removeUpdatedConfig(sshConfig.data, proc.name)]
                  /\ UNCHANGED call
    /\ UNCHANGED <<sshConfig, backupFile, tempFile, keyFiles, calls, external>>
    /\ UNCHANGED storeVars

\* lines 360-365 and 571-576: os.WriteFile(backupFile, configData) succeeds
WriteBackup ==
    /\ proc.pc = "backup"
    /\ backupFile' = File(proc.configData)
    /\ proc' = [proc EXCEPT !.pc = "temp", !.io = Append(proc.io, "write backup")]
    /\ UNCHANGED <<sshConfig, tempFile, keyFiles, call, calls, external>>
    /\ UNCHANGED storeVars

\* lines 362-364 and 573-575: os.WriteFile(backupFile, configData) fails;
\* the call returns before the removal of the backup is deferred
WriteBackupFails ==
    /\ proc.pc = "backup"
    /\ backupFile' \in PartialWrites(backupFile, proc.configData)
    /\ Return("failed to create backup of SSH config", proc.io)
    /\ UNCHANGED <<sshConfig, tempFile, keyFiles, calls, external>>
    /\ UNCHANGED storeVars

\* the temp file written over the real path instead of the temp path
WriteTemp_OverRealPath ==
    /\ proc.pc = "temp"
    /\ sshConfig' = File(proc.updatedConfig)
    /\ tempFile' = File(proc.updatedConfig)
    /\ proc' = [proc EXCEPT !.pc = "rename", !.io = Append(proc.io, "write temp")]
    /\ UNCHANGED <<backupFile, keyFiles, call, calls, external>>
    /\ UNCHANGED storeVars

\* the new content derived from the document as it is when the temp file is
\* written, not from the bytes read at the start of the call
WriteTemp_Reread ==
    /\ proc.pc = "temp"
    /\ tempFile' = File(IF proc.op = "AddSSHConfigEntry"
                        THEN addUpdatedConfig(readExisting(sshConfig), proc.name,
                                              selectKeyFile(keyFiles, proc.name))
                        ELSE removeUpdatedConfig(sshConfig.data, proc.name))
    /\ proc' = [proc EXCEPT !.pc = "rename", !.io = Append(proc.io, "write temp")]
    /\ UNCHANGED <<sshConfig, backupFile, keyFiles, call, calls, external>>
    /\ UNCHANGED storeVars

\* lines 367-371 and 598-602: os.WriteFile(tempFile, updatedConfig) succeeds
WriteTemp ==
    /\ proc.pc = "temp"
    /\ tempFile' = File(proc.updatedConfig)
    /\ proc' = [proc EXCEPT !.pc = "rename", !.io = Append(proc.io, "write temp")]
    /\ UNCHANGED <<sshConfig, backupFile, keyFiles, call, calls, external>>
    /\ UNCHANGED storeVars

\* lines 369-371 and 600-602: os.WriteFile(tempFile, updatedConfig) fails
WriteTempFails ==
    /\ proc.pc = "temp"
    /\ tempFile' \in PartialWrites(tempFile, proc.updatedConfig)
    /\ proc' = [proc EXCEPT !.pc = "cleanup", !.io = Append(proc.io, "write temp"),
                            !.err = "failed to write temporary SSH config"]
    /\ UNCHANGED <<sshConfig, backupFile, keyFiles, call, calls, external>>
    /\ UNCHANGED storeVars

\* lines 373-376 and 604-607: os.Rename(tempFile, sshConfigFile) succeeds
RenameTemp ==
    /\ proc.pc = "rename"
    /\ sshConfig' = tempFile
    /\ tempFile' = NoFile
    /\ proc' = [proc EXCEPT !.pc = "cleanup", !.io = Append(proc.io, "rename")]
    /\ UNCHANGED <<backupFile, keyFiles, call, calls, external>>
    /\ UNCHANGED storeVars

\* lines 374-376 and 605-607: os.Rename(tempFile, sshConfigFile) fails
RenameFails ==
    /\ proc.pc = "rename"
    /\ proc' = [proc EXCEPT !.pc = "cleanup", !.io = Append(proc.io, "rename"),
                            !.err = "failed to update SSH config"]
    /\ UNCHANGED <<sshConfig, tempFile, backupFile, keyFiles, call, calls, external>>
    /\ UNCHANGED storeVars

\* a return that leaves the backup file where it is
RemoveBackup_KeepsBackup ==
    /\ proc.pc = "cleanup"
    /\ Return(proc.err, Append(proc.io, "remove backup"))
    /\ UNCHANGED <<sshConfig, backupFile, tempFile, keyFiles, calls, external>>
    /\ UNCHANGED storeVars

\* lines 365 and 576: the deferred os.Remove(backupFile), then the return
RemoveBackup ==
    /\ proc.pc = "cleanup"
    /\ backupFile' = NoFile
    /\ Return(proc.err, Append(proc.io, "remove backup"))
    /\ UNCHANGED <<sshConfig, tempFile, keyFiles, calls, external>>
    /\ UNCHANGED storeVars

\* the process dies in the middle of the call; a write in progress leaves a
\* truncated file
Crash ==
    /\ proc.pc \notin {"idle"}
    /\ backupFile' \in (IF proc.pc = "backup"
                        THEN PartialWrites(backupFile, proc.configData) ELSE {backupFile})
    /\ tempFile' \in (IF proc.pc = "temp"
                      THEN PartialWrites(tempFile, proc.updatedConfig) ELSE {tempFile})
    /\ Return("crashed", proc.io)
    /\ UNCHANGED <<sshConfig, keyFiles, calls, external>>
    /\ UNCHANGED storeVars

\* the stanza another writer appends to the document
ExternalStanza == "Host ext.com\n\tUser you\n"

\* another process or an editor rewrites ~/.ssh/config with a stanza added
ExternalEdit ==
    /\ external < MaxExternalEdits
    /\ external' = external + 1
    /\ sshConfig' = File(readExisting(sshConfig) \o ExternalStanza)
    /\ proc' = IF proc.pc \in {"backup", "temp", "rename"}
               THEN [proc EXCEPT !.raced = TRUE] ELSE proc
    /\ UNCHANGED <<backupFile, tempFile, keyFiles, call, calls>>
    /\ UNCHANGED storeVars

StepNext ==
    \/ \E n \in AccountNames : BeginAdd(n)
    \/ \E n \in AccountNames : BeginRemove(n)
    \/ ReadConfig
    \/ WriteBackup
    \/ WriteTemp
    \/ RenameTemp
    \/ RemoveBackup

NextSteps ==
    \/ StepNext
    \/ WriteBackupFails
    \/ WriteTempFails
    \/ RenameFails
    \/ Crash

NextRace ==
    \/ StepNext
    \/ ExternalEdit

\* the documents and key files the step-by-step runs start from: no document,
\* a user stanza, or a managed block followed by a user stanza; the first
\* name without key, the others with an RSA or an ED25519 key
StepDocs ==
    { NoFile,
      File(UserStanza),
      File(hostEntry(AllNames[1], ed25519KeyFile(AllNames[1])) \o UserStanza) }

InitSteps ==
    /\ Init
    /\ sshConfig \in StepDocs
    /\ keyFiles = UNION {KeysOfKind(AllNames[i], (i - 1) % 4) : i \in 1..Len(AllNames)}

\* the calls taken step by step, with I/O failures and crashes
SpecSteps == InitSteps /\ [][NextSteps]_vars

\* the calls taken step by step on a working filesystem, with another writer
\* of the document
SpecRace == InitSteps /\ [][NextRace]_vars

InitTool ==
    /\ Init
    /\ sshConfig \in ToolWrittenDocs

\* the runs that start from a missing or empty alias document
SpecTool == InitTool /\ [][Next]_vars

-----------------------------------------------------------------------------
(* The commands: CreateAccount, DeleteAccount, use, profile                *)

\* what a command finds and leaves, the error of its last step, the
\* failure it has met so far, the operations it has invoked and the key
\* files it has written
World ==
    [keys |-> keyFiles, agent |-> agentKeys, ssh |-> sshConfig, temp |-> tempFile,
     file |-> configFile, git |-> gitConfig, call |-> call, err |-> "", met |-> "none",
     email |-> "", steps |-> <<>>, wrote |-> {}]

\* the end of a command: the world it leaves and the record of the call
Finish(op, name, err, w, loaded, config, saved) ==
    /\ calls' = calls + 1
    /\ keyFiles' = w.keys
    /\ agentKeys' = w.agent
    /\ sshConfig' = w.ssh
    /\ tempFile' = w.temp
    /\ configFile' = w.file
    /\ gitConfig' = w.git
    /\ call' = w.call
    /\ store' = [op |-> op, name |-> name, fault |-> w.met, err |-> err,
                 before |-> configFile, loaded |-> loaded, config |-> config,
                 saved |-> saved, email |-> w.email, steps |-> w.steps,
                 wrote |-> w.wrote]
    /\ UNCHANGED <<backupFile, proc, external>>

\* a load that writes a fresh document when there is no config.json
LoadConfigStep_CreatesFile(w, fault) ==
    [w EXCEPT !.file = IF @.exists THEN @ ELSE SaveConfigToFile(NewConfig)]

\* a load that writes back the document it read
LoadConfigStep_WritesBack(w, fault) ==
    [w EXCEPT !.file = IF @.exists THEN SaveConfigToFile(LoadConfig(@, TRUE)) ELSE @]

\* config := LoadConfig() in a command; an unreadable file is met when
\* there is a file that would have been read
LoadConfigStep(w, fault) ==
    [w EXCEPT !.met = IF fault = "read config" /\ w.file.exists THEN fault ELSE @]

\* SSHClient.CreateSSHKey as CreateAccount calls it
CreateSSHKeyStep(w, r, fault) ==
    [w EXCEPT !.keys = r.keys, !.err = r.err, !.met = IF r.err # "" THEN fault ELSE @,
              !.steps = Append(@, "CreateSSHKey"), !.wrote = @ \cup r.wrote]

\* a call of AddSSHKeyToAgent whose error is dropped
AddSSHKeyToAgentStep_ErrorDropped(w, r, fault) ==
    [w EXCEPT !.agent = r.agent, !.err = "", !.steps = Append(@, "AddSSHKeyToAgent")]

\* AddSSHKeyToAgent as a command calls it
AddSSHKeyToAgentStep(w, r, fault) ==
    [w EXCEPT !.agent = r.agent, !.err = r.err, !.steps = Append(@, "AddSSHKeyToAgent"),
              !.met = IF r.err \in {"SSH agent is not running",
                                    "failed to add key to SSH agent"}
                      THEN fault ELSE @]

\* an alias step of CreateAccount that persists the record of the account
\* before its own result is known
AliasStep_PersistsRecord(op, w, r, accountName, fault) ==
    [w EXCEPT !.ssh  = r.config,
              !.temp = IF r.io = MutatingIO THEN NoFile ELSE w.temp,
              !.call = [op |-> op, name |-> accountName, err |-> r.err,
                        before |-> w.ssh, io |-> r.io],
              !.err  = r.err,
              !.steps = Append(@, op),
              !.file = IF op = "AddSSHConfigEntry"
                       THEN SaveConfigToFile(
                               [LoadConfig(w.file, TRUE) EXCEPT
                                   !.Accounts = MapPut(@, accountName,
                                                       Account(accountName, w.email))])
                       ELSE @]

\* AddSSHConfigEntry / RemoveSSHConfigEntry as a command calls them, r being
\* their result on a working filesystem: that result, or os.Rename failing
\* (ssh.go lines 374-376, 605-607), which leaves the temp file behind and
\* the document as it was
AliasStep(op, w, r, accountName, fault) ==
    LET writes == r.io = MutatingIO
        failed == writes /\ fault = "rename alias"
        err    == IF failed THEN "failed to update SSH config" ELSE r.err
    IN  [w EXCEPT !.ssh  = IF failed THEN w.ssh ELSE r.config,
                  !.temp = IF failed THEN r.config ELSE IF writes THEN NoFile ELSE w.temp,
                  !.call = [op |-> op, name |-> accountName, err |-> err,
                            before |-> w.ssh, io |-> r.io],
                  !.err  = err,
                  !.met  = IF failed THEN fault ELSE @,
                  !.steps = Append(@, op)]

\* the files DeleteSSHKey can see: the key files, the alias document and
\* its temp file
FilesOf(w) ==
    w.keys \cup (IF w.ssh.exists THEN {sshConfigFile} ELSE {})
           \cup (IF w.temp.exists THEN {sshConfigFile \o ".tmp"} ELSE {})

\* DeleteSSHKey as DeleteAccount calls it, removed being the files it is to
\* remove; when os.Remove fails the files stay
DeleteSSHKeyStep(w, removed, fault) ==
    IF removed # {} /\ fault = "remove key"
    THEN [w EXCEPT !.err = "failed to delete key", !.met = fault,
                   !.steps = Append(@, "DeleteSSHKey")]
    ELSE [w EXCEPT !.keys = @ \ removed,
                   !.steps = Append(@, "DeleteSSHKey"),
                   !.ssh  = IF sshConfigFile \in removed THEN NoFile ELSE @,
                   !.temp = IF (sshConfigFile \o ".tmp") \in removed THEN NoFile ELSE @,
                   !.err  = ""]

\* setGitConfig, cmd/use.go, lines 54-78: four git config --global commands,
\* the first failing one ends the sequence
setGitConfig(git, account, fault) ==
    LET g1 == [git EXCEPT !["user.name"] = account.Name]
        g2 == [g1 EXCEPT !["user.email"] = account.Email]
        g3 == [g2 EXCEPT !["core.sshCommand"] =
                  "ssh -i ~/.ssh/id_rsa_" \o account.Name \o " -F /dev/null"]
        g4 == [g3 EXCEPT !["push.default"] = "current"]
    IN  IF fault = "git user.name" THEN [err |-> "failed to set git user.name", git |-> git]
        ELSE IF fault = "git user.email"
        THEN [err |-> "failed to set git user.email", git |-> g1]
        ELSE IF fault = "git core.sshCommand"
        THEN [err |-> "failed to set git core.sshCommand", git |-> g2]
        ELSE IF fault = "git push.default"
        THEN [err |-> "failed to set git push.default", git |-> g3]
        ELSE [err |-> "", git |-> g4]

\* a call of setGitConfig whose error is dropped
setGitConfigStep_ErrorDropped(w, r, fault) ==
    [w EXCEPT !.git = r.git, !.err = "", !.steps = Append(@, "setGitConfig")]

\* setGitConfig as useCmd calls it
setGitConfigStep(w, r, fault) ==
    [w EXCEPT !.git = r.git, !.err = r.err, !.met = IF r.err # "" THEN fault ELSE @,
              !.steps = Append(@, "setGitConfig")]

\* multigit.SaveConfig(config) as a command calls it
SaveConfigStep(w, r, fault) ==
    [w EXCEPT !.file = r.file, !.err = r.err, !.met = IF r.err # "" THEN fault ELSE @,
              !.steps = Append(@, "SaveConfig")]

\* the last step of every command: save, and return the error of the save
\* under the command's name for it, or success
SaveAndFinish(op, name, w, loaded, config, saveErr, fault) ==
    \E saved \in {SaveConfigStep(w, SaveOutcome(w.file, config, fault), fault)} :
        Finish(op, name, IF saved.err # "" THEN saveErr ELSE "", saved, loaded, config,
               saved.err = "")

\* the failures a command can meet; each call meets at most one
SaveFaults == {"none", "mkdir config", "write config"}

StoreFaults == {"none", "read config", "write config"}

CreateFaults == StoreFaults \cup {"write public key", "ssh-add", "rename alias"}

DeleteFaults == StoreFaults \cup {"remove key", "rename alias"}

UseFaults == StoreFaults \cup {"ssh-add", "git core.sshCommand"}

\* the arguments of the commands
Emails == {"", "w.example", "w@example"}

Passphrases == {"", "pw"}

ProfileNames == {"p", "q"}

\* CreateAccount, account.go lines 38-94, with the key type its callers
\* hand over (cmd/add.go line 34, account.go line 291).  The passphrase is
\* handed to CreateSSHKey in the place of keyFile
CreateAccountWithKeyType(accountName, accountEmail, passphrase, keyType, fault) ==
    /\ calls < MaxStoreCalls
    /\ \E called \in {[World EXCEPT !.email = accountEmail]} :
       IF accountName = ""
       THEN Finish("CreateAccount", accountName, "account name cannot be empty", called,
                   ZeroConfig, ZeroConfig, FALSE)
       ELSE IF accountEmail = ""
       THEN Finish("CreateAccount", accountName, "email cannot be empty", called,
                   ZeroConfig, ZeroConfig, FALSE)
       ELSE IF ~Contains(accountEmail, "@")
       THEN Finish("CreateAccount", accountName, "invalid email format", called,
                   ZeroConfig, ZeroConfig, FALSE)
       ELSE
       \E config \in {LoadConfig(configFile, fault # "read config")} :
       \E w0 \in {LoadConfigStep(called, fault)} :
       IF Exists(config.Accounts, accountName)
       THEN Finish("CreateAccount", accountName, "account already exists", w0,
                   config, config, FALSE)
       ELSE
       \E w1 \in {CreateSSHKeyStep(w0, CreateSSHKeyOutcome(w0.keys, accountName,
                                                           passphrase, keyType, fault),
                                    fault)} :
       IF w1.err # ""
       THEN Finish("CreateAccount", accountName, "failed to create SSH key", w1,
                   config, config, FALSE)
       ELSE
       \E w2 \in {AddSSHKeyToAgentStep(w1, AddSSHKeyToAgentOutcome(w1.keys, w1.agent,
                                                          accountName, fault), fault)} :
       IF w2.err # ""
       THEN Finish("CreateAccount", accountName, "failed to add SSH key to agent", w2,
                   config, config, FALSE)
       ELSE
       \E r \in {AddOutcome(w2.ssh, w2.keys, accountName)} :
       \E w3 \in {AliasStep("AddSSHConfigEntry", w2, r, accountName, fault)} :
       IF w3.err # ""
       THEN Finish("CreateAccount", accountName, "failed to add SSH config entry", w3,
                   config, config, FALSE)
       ELSE
       \E added \in {[config EXCEPT
                        !.Accounts = MapPut(IF @.nil THEN MakeMap ELSE @, accountName,
                                            Account(accountName, accountEmail))]} :
       SaveAndFinish("CreateAccount", accountName, w3, config, added,
                     "failed to save config", fault)

\* CreateAccount as account.go line 59 calls CreateSSHKey: with no key type
CreateAccount(accountName, accountEmail, passphrase, fault) ==
    CreateAccountWithKeyType(accountName, accountEmail, passphrase, "", fault)

\* DeleteAccount, account.go lines 97-131: the errors of DeleteSSHKey and
\* RemoveSSHConfigEntry are logged, not returned
DeleteAccount(accountName, fault) ==
    /\ calls < MaxStoreCalls
    /\ \E config \in {LoadConfig(configFile, fault # "read config")} :
       \E w0 \in {LoadConfigStep(World, fault)} :
       IF ~Exists(config.Accounts, accountName)
       THEN Finish("DeleteAccount", accountName, "account does not exist", w0,
                   config, config, FALSE)
       ELSE
       \E w1 \in {DeleteSSHKeyStep(w0, DeleteSSHKey(FilesOf(w0), accountName), fault)} :
       \E r \in {RemoveOutcome(w1.ssh, accountName)} :
       \E w2 \in {AliasStep("RemoveSSHConfigEntry", w1, r, accountName, fault)} :
       \E deleted \in {[config EXCEPT
                          !.Accounts = MapDelete(@, accountName),
                          !.ActiveAccount = IF @ = accountName THEN "" ELSE @]} :
       SaveAndFinish("DeleteAccount", accountName, w2, config, deleted,
                     "failed to save config", fault)

\* useCmd, cmd/use.go, lines 22-50
useCmd(accountName, fault) ==
    /\ calls < MaxStoreCalls
    /\ \E config \in {LoadConfig(configFile, fault # "read config")} :
       \E w0 \in {LoadConfigStep(World, fault)} :
       IF ~Exists(config.Accounts, accountName)
       THEN Finish("use", accountName, "account does not exist", w0, config, config, FALSE)
       ELSE
       \E w1 \in {AddSSHKeyToAgentStep(w0, AddSSHKeyToAgentOutcome(w0.keys, w0.agent,
                                                          accountName, fault), fault)} :
       IF w1.err # ""
       THEN Finish("use", accountName, "failed to add SSH key to agent", w1,
                   config, config, FALSE)
       ELSE
       \E w2 \in {setGitConfigStep(w1, setGitConfig(w1.git, config.Accounts.m[accountName],
                                                    fault), fault)} :
       IF w2.err # ""
       THEN Finish("use", accountName, "failed to set git config", w2, config, config, FALSE)
       ELSE
       \E active \in {[config EXCEPT !.ActiveAccount = accountName]} :
       SaveAndFinish("use", accountName, w2, config, active, "failed to save config", fault)

\* createProfileCmd, the profile commands, lines 17-44
createProfileCmd(profileName, fault) ==
    /\ calls < MaxStoreCalls
    /\ \E config \in {LoadConfig(configFile, fault # "read config")} :
       \E w0 \in {LoadConfigStep(World, fault)} :
       IF Exists(config.Profiles, profileName)
       THEN Finish("profile create", profileName, "profile already exists", w0,
                   config, config, FALSE)
       ELSE
       \E created \in {[config EXCEPT
                          !.Profiles = MapPut(@, profileName,
                                              Profile(profileName, MakeMap))]} :
       SaveAndFinish("profile create", profileName, w0, config, created,
                     "failed to save profile", fault)

\* useProfileCmd, the profile commands, lines 94-118
useProfileCmd(profileName, fault) ==
    /\ calls < MaxStoreCalls
    /\ \E config \in {LoadConfig(configFile, fault # "read config")} :
       \E w0 \in {LoadConfigStep(World, fault)} :
       IF ~Exists(config.Profiles, profileName)
       THEN Finish("profile use", profileName, "profile does not exist", w0,
                   config, config, FALSE)
       ELSE
       \E active \in {[config EXCEPT !.ActiveProfile = profileName]} :
       SaveAndFinish("profile use", profileName, w0, config, active,
                     "failed to update active profile", fault)

\* deleteProfileCmd, the profile commands, lines 120-158: without --force the
\* user is asked, and a refusal ends the command without an error
deleteProfileCmd(profileName, confirmed, fault) ==
    /\ calls < MaxStoreCalls
    /\ \E config \in {LoadConfig(configFile, fault # "read config")} :
       \E w0 \in {LoadConfigStep(World, fault)} :
       IF ~Exists(config.Profiles, profileName)
       THEN Finish("profile delete", profileName, "profile does not exist", w0,
                   config, config, FALSE)
       ELSE IF ~confirmed
       THEN Finish("profile delete", profileName, "", w0, config, config, FALSE)
       ELSE
       \E deleted \in {[config EXCEPT
                          !.ActiveProfile = IF @ = profileName THEN "" ELSE @,
                          !.Profiles = MapDelete(@, profileName)]} :
       SaveAndFinish("profile delete", profileName, w0, config, deleted,
                     "failed to delete profile", fault)

NextStore ==
    \/ \E n \in AccountNames \cup {""}, e \in Emails, p \in Passphrases, f \in CreateFaults :
          CreateAccount(n, e, p, f)
    \/ \E n \in AccountNames, f \in DeleteFaults : DeleteAccount(n, f)
    \/ \E n \in AccountNames, f \in UseFaults : useCmd(n, f)
    \/ \E p \in ProfileNames, f \in StoreFaults : createProfileCmd(p, f)
    \/ \E p \in ProfileNames, f \in StoreFaults : useProfileCmd(p, f)
    \/ \E p \in ProfileNames, c \in BOOLEAN, f \in StoreFaults : deleteProfileCmd(p, c, f)

\* config.json written by hand: an active account and no accounts member
HandEditedNoMaps == ConfigFileOf(JObject([active_account |-> JString("w")]))

\* config.json written by hand: the active account and the active profile
\* name no entry, the profile has no accounts member
HandEditedDangling ==
    ConfigFileOf(JObject(
        [accounts       |-> JObject([hub |-> JObject([name  |-> JString("hub"),
                                                      email |-> JString("hub@example")])]),
         active_account |-> JString("w"),
         profiles       |-> JObject([p |-> JObject([name |-> JString("p")])]),
         active_profile |-> JString("q")]))

\* config.json as the commands leave it with two accounts, one of them active
TwoAccountsOneActive ==
    SaveConfigToFile(
        Config(MapOf([n \in {"w", "hub"} |-> Account(n, n \o "@example")]), "w",
               MakeMap, ""))

InitialConfigFiles ==
    {NoConfigFile, Malformed, SaveConfigToFile(NewConfig), HandEditedNoMaps,
     HandEditedDangling, TwoAccountsOneActive}

InitStore ==
    /\ sshConfig \in {NoFile, File(UserStanza)}
    /\ backupFile = NoFile
    /\ tempFile = NoFile
    /\ keyFiles = {}
    /\ call = NoCall
    /\ calls = 0
    /\ proc = Idle
    /\ external = 0
    /\ configFile \in InitialConfigFiles
    /\ agentKeys = {}
    /\ gitConfig = NoGitConfig
    /\ store = NoStoreCall

\* the commands, each run to its end, with at most one failure per call
SpecStore == InitStore /\ [][NextStore]_vars

\* what two successful CreateAccount calls, for first and then for second,
\* leave when they start from the alias document doc and no config.json
TwoIdentities(first, second, doc) ==
    LET keys == KeysOfKind(first, 2) \cup KeysOfKind(second, 2) IN
    [keys  |-> keys,
     agent |-> {ed25519KeyFile(first), ed25519KeyFile(second)},
     ssh   |-> AddOutcome(AddOutcome(doc, keys, first).config, keys, second).config,
     file  |-> SaveConfigToFile(
                  Config(MapOf([n \in {first, second} |-> Account(n, n \o "@example")]),
                         "", MakeMap, ""))]

\* the states a run of CreateAccount and DeleteAccount starts from: nothing
\* created yet, or two identities created
LifecycleStarts ==
    {[keys |-> {}, agent |-> {}, ssh |-> doc, file |-> file] :
        doc \in {NoFile, File(UserStanza)},
        file \in {NoConfigFile, SaveConfigToFile(NewConfig)}}
    \cup {TwoIdentities(AllNames[1], AllNames[2], NoFile),
          TwoIdentities(AllNames[1], AllNames[3], NoFile),
          TwoIdentities(AllNames[3], AllNames[1], File(UserStanza))}

InitLifecycle ==
    /\ \E s \in LifecycleStarts :
          /\ keyFiles = s.keys
          /\ agentKeys = s.agent
          /\ sshConfig = s.ssh
          /\ configFile = s.file
    /\ backupFile = NoFile
    /\ tempFile = NoFile
    /\ call = NoCall
    /\ calls = 0
    /\ proc = Idle
    /\ external = 0
    /\ gitConfig = NoGitConfig
    /\ store = NoStoreCall

NextLifecycle ==
    \/ \E n \in AccountNames, p \in Passphrases : CreateAccount(n, n \o "@example", p, "none")
    \/ \E n \in AccountNames : DeleteAccount(n, "none")

\* CreateAccount and DeleteAccount with working SSH operations and no
\* failure of the filesystem or the agent
SpecLifecycle == InitLifecycle /\ [][NextLifecycle]_vars

\* the key files left over from earlier attempts for the first name: none,
\* an RSA pair, an ED25519 pair, both
LeftOverKeys == {KeysOfKind(AllNames[1], kind) : kind \in 0..3}

InitIdentity ==
    /\ keyFiles \in LeftOverKeys
    /\ agentKeys = {}
    /\ sshConfig \in {NoFile, File(UserStanza)}
    /\ configFile \in {NoConfigFile, SaveConfigToFile(NewConfig)}
    /\ backupFile = NoFile
    /\ tempFile = NoFile
    /\ call = NoCall
    /\ calls = 0
    /\ proc = Idle
    /\ external = 0
    /\ gitConfig = NoGitConfig
    /\ store = NoStoreCall

NextIdentity ==
    \/ \E n \in {AllNames[1], AllNames[3]}, keyType \in {"rsa", "ed25519"},
          f \in CreateFaults :
          CreateAccountWithKeyType(n, n \o "@example", "", keyType, f)
    \/ \E n \in {AllNames[1], AllNames[3]} : DeleteAccount(n, "none")

\* identities created with either algorithm, with and without key files
\* left over
SpecIdentity == InitIdentity /\ [][NextIdentity]_vars

-----------------------------------------------------------------------------
(* SaveConfig and LoadConfig called with any document                      *)

AccountMaps ==
    {NilMap, MakeMap, MapOf([k \in {"w"} |-> Account("w", "w@example")])}

ProfileMaps ==
    {NilMap,
     MapOf([k \in {"p"} |-> Profile("p", NilMap)]),
     MapOf([k \in {"p", "q"} |->
              IF k = "p" THEN Profile("p", MapOf([a \in {"w"} |-> TRUE]))
              ELSE Profile("q", MakeMap)])}

\* the documents handed to SaveConfig
ConfigDocs ==
    {Config(a, activeAccount, p, activeProfile) :
        a \in AccountMaps, activeAccount \in {"", "w", "hub"},
        p \in ProfileMaps, activeProfile \in {"", "p"}}

\* SaveConfig(config), account.go lines 204-246.  The record keeps the
\* document last loaded; the file before the call is recorded for commands
\* only
SaveConfig(config, fault) ==
    /\ calls < MaxRoundTripCalls
    /\ calls' = calls + 1
    /\ LET save == SaveOutcome(configFile, config, fault) IN
       /\ configFile' = save.file
       /\ store' = [op |-> "SaveConfig", name |-> "", fault |-> fault, err |-> save.err,
                    before |-> NoConfigFile, loaded |-> store.loaded, config |-> config,
                    saved |-> save.err = "", email |-> "", steps |-> <<"SaveConfig">>,
                    wrote |-> {}]
    /\ UNCHANGED <<sshConfig, backupFile, tempFile, keyFiles, call, proc, external,
                   agentKeys, gitConfig>>

\* config := LoadConfig(), account.go lines 166-201
CallLoadConfig(readable) ==
    /\ calls < MaxRoundTripCalls
    /\ calls' = calls + 1
    /\ store' = [op |-> "LoadConfig", name |-> "",
                 fault |-> IF readable THEN "none" ELSE "read config", err |-> "",
                 before |-> NoConfigFile, loaded |-> LoadConfig(configFile, readable),
                 config |-> store.config, saved |-> FALSE, email |-> "",
                 steps |-> <<>>, wrote |-> {}]
    /\ UNCHANGED <<sshConfig, backupFile, tempFile, keyFiles, call, proc, external,
                   configFile, agentKeys, gitConfig>>

NextRoundTrip ==
    \/ \E config \in ConfigDocs, f \in SaveFaults : SaveConfig(config, f)
    \/ \E readable \in BOOLEAN : CallLoadConfig(readable)

InitRoundTrip ==
    /\ InitStore
    /\ sshConfig = NoFile
    /\ configFile \in {NoConfigFile, Malformed}

\* documents saved and loaded back through config.json
SpecRoundTrip == InitRoundTrip /\ [][NextRoundTrip]_vars

-----------------------------------------------------------------------------
(* LoadConfig called on any config.json                                    *)

\* config.json holding JSON text that is no document: the text "not json"
\* in quotes is a JSON string, an accounts member that is a string and a
\* profile that is a bool have the wrong type
NotADocument ==
    {ConfigFileOf(JString("not json")),
     ConfigFileOf(JObject([accounts |-> JString("w"), active_account |-> JString("w")])),
     ConfigFileOf(JObject([profiles |-> JObject([p |-> JBool(TRUE)])]))}

\* config.json holding the text null
NullDocument == ConfigFileOf(JNull)

\* the states LoadConfig finds config.json in
LoadFiles ==
    InitialConfigFiles \cup NotADocument \cup {NullDocument}
        \cup {SaveConfigToFile(D) : D \in ConfigDocs}

NextLoad == \E readable \in BOOLEAN : CallLoadConfig(readable)

InitLoad ==
    /\ sshConfig = NoFile
    /\ backupFile = NoFile
    /\ tempFile = NoFile
    /\ keyFiles = {}
    /\ call = NoCall
    /\ calls = 0
    /\ proc = Idle
    /\ external = 0
    /\ configFile \in LoadFiles
    /\ agentKeys = {}
    /\ gitConfig = NoGitConfig
    /\ store = NoStoreCall

\* LoadConfig on every state of config.json
SpecLoad == InitLoad /\ [][NextLoad]_vars

\* a nil *Account
NilAccount == [nil |-> TRUE]

\* a GetActiveAccount that hands out the name it did not find
GetActiveAccount_NameOnNotFound(config) ==
    IF config.ActiveAccount = ""
    THEN [name |-> "", account |-> NilAccount, err |-> "no active account"]
    ELSE [name |-> config.ActiveAccount,
          account |-> IF Exists(config.Accounts, config.ActiveAccount)
                      THEN [nil |-> FALSE, v |-> config.Accounts.m[config.ActiveAccount]]
                      ELSE NilAccount,
          err |-> IF Exists(config.Accounts, config.ActiveAccount) THEN ""
                  ELSE "active account not found in config"]

\* GetActiveAccount, account.go lines 249-261, on the document LoadConfig
\* returned
GetActiveAccount(config) ==
    IF config.ActiveAccount = ""
    THEN [name |-> "", account |-> NilAccount, err |-> "no active account"]
    ELSE IF ~Exists(config.Accounts, config.ActiveAccount)
    THEN [name |-> "", account |-> NilAccount,
          err |-> "active account not found in config"]
    ELSE [name |-> config.ActiveAccount,
          account |-> [nil |-> FALSE, v |-> config.Accounts.m[config.ActiveAccount]],
          err |-> ""]

CallGetActiveAccount(readable) ==
    /\ calls < MaxRoundTripCalls
    /\ calls' = calls + 1
    /\ \E config \in {LoadConfig(configFile, readable)} :
       \E r \in {GetActiveAccount(config)} :
          store' = [op |-> "GetActiveAccount", name |-> r.name, account |-> r.account,
                    fault |-> IF readable THEN "none" ELSE "read config", err |-> r.err,
                    loaded |-> config]
    /\ UNCHANGED <<sshConfig, backupFile, tempFile, keyFiles, call, proc, external,
                   configFile, agentKeys, gitConfig>>

NextActive == \E readable \in BOOLEAN : CallGetActiveAccount(readable)

\* GetActiveAccount on every state of config.json
SpecActive == InitLoad /\ [][NextActive]_vars

-----------------------------------------------------------------------------
(* Vocabulary of the properties                                            *)

Lines(cfg) == Split(cfg.data)

HostLine(accountName) == "Host " \o hostPatternOf(accountName)

\* the positions of the lines of the document that are exactly this text
Positions(cfg, text) ==
    LET lines == Lines(cfg) IN {i \in 1..Len(lines) : lines[i] = text}

\* N is PRESENT: the document holds a managed block of N, that is N's begin
\* marker, directly followed by N's Host line, and later N's end marker
HasBlock(cfg, accountName) ==
    /\ cfg.exists
    /\ \E i \in Positions(cfg, BeginMarker \o accountName) :
          /\ i + 1 \in Positions(cfg, HostLine(accountName))
          /\ \E j \in Positions(cfg, EndMarker \o accountName) : j > i

\* N is ABSENT: no line of the document is a marker or the Host line of N
Absent(cfg, accountName) ==
    /\ Positions(cfg, BeginMarker \o accountName) = {}
    /\ Positions(cfg, HostLine(accountName)) = {}
    /\ Positions(cfg, EndMarker \o accountName) = {}

\* the first managed block of N: from its begin marker to its end marker
BlockFirst(cfg, accountName) == Min(Positions(cfg, BeginMarker \o accountName))

BlockLast(cfg, accountName) ==
    Min({j \in Positions(cfg, EndMarker \o accountName) : j > BlockFirst(cfg, accountName)})

\* the lines of the document outside the managed block of N, in order
OutsideBlock(cfg, accountName) ==
    LET lines == Lines(cfg)
    IN  SubSeq(lines, 1, BlockFirst(cfg, accountName) - 1)
        \o SubSeq(lines, BlockLast(cfg, accountName) + 1, Len(lines))

IsText(line) == TrimSpace(line) # ""

\* the lines that carry text (blank lines separate stanzas and are trimmed
\* at the end of the document by every removal)
TextLines(lines) == SelectSeq(lines, IsText)

\* the document without its trailing blank lines and final newline
Normalized(cfg) == Join(TrimTrailingBlank(Lines(cfg)))

KeyExists(accountName) ==
    rsaKeyFile(accountName) \in keyFiles \/ ed25519KeyFile(accountName) \in keyFiles

-----------------------------------------------------------------------------
(* Properties                                                              *)

\* C1: RemoveSSHConfigEntry(N) on a document holding N's managed block
\* drops the lines of that block and keeps every other line that carries
\* text, verbatim and in order.
C1_RemoveDropsOnlyOwnBlock ==
    (call.op = "RemoveSSHConfigEntry" /\ HasBlock(call.before, call.name))
    => /\ call.err = ""
       /\ TextLines(Lines(sshConfig)) = TextLines(OutsideBlock(call.before, call.name))

\* C2: started from a missing or empty document, the document never holds
\* more than one begin marker, one Host line or one end marker of a name.
C2_AtMostOneBlockPerName ==
    \A n \in AccountNames :
        /\ Cardinality(Positions(sshConfig, BeginMarker \o n)) <= 1
        /\ Cardinality(Positions(sshConfig, HostLine(n))) <= 1
        /\ Cardinality(Positions(sshConfig, EndMarker \o n)) <= 1

\* C3 as stated: AddSSHConfigEntry(N) on a document that holds N's block
\* fails with "already exists" and writes nothing.
C3_DuplicateAlwaysAlreadyExists ==
    (call.op = "AddSSHConfigEntry" /\ HasBlock(call.before, call.name))
    => /\ call.err = "already exists"
       /\ sshConfig = call.before
       /\ call.io = <<>>

\* C3 amended: AddSSHConfigEntry(N) on a document that holds N's block fails
\* and writes nothing; the error is "already exists" when a key file of N
\* exists and "no SSH key found" when none does.
C3_DuplicateRejected ==
    (call.op = "AddSSHConfigEntry" /\ HasBlock(call.before, call.name))
    => /\ call.err = (IF KeyExists(call.name) THEN "already exists" ELSE "no SSH key found")
       /\ sshConfig = call.before
       /\ call.io = <<>>
       /\ backupFile = NoFile /\ tempFile = NoFile

C3_Witness ==
    /\ call.op = "AddSSHConfigEntry"
    /\ HasBlock(call.before, call.name)
    /\ call.err = "already exists"
    /\ \E n \in AccountNames \ {call.name} : HasBlock(sshConfig, n)

\* C4: AddSSHConfigEntry(N) with N ABSENT and a key file of N present
\* succeeds and appends exactly one managed block of N.
C4_AddOnAbsentSucceeds ==
    (call.op = "AddSSHConfigEntry" /\ Absent(call.before, call.name) /\ KeyExists(call.name))
    => /\ call.err = ""
       /\ HasBlock(sshConfig, call.name)
       /\ Cardinality(Positions(sshConfig, BeginMarker \o call.name)) = 1
       /\ HasPrefix(sshConfig.data, call.before.data)

\* C5: RemoveSSHConfigEntry(N) with N ABSENT (or the document missing)
\* succeeds without writing and leaves the document as it was.
C5_RemoveOnAbsentIsNoOp ==
    (call.op = "RemoveSSHConfigEntry" /\ Absent(call.before, call.name))
    => /\ call.err = ""
       /\ sshConfig = call.before
       /\ call.io = <<>>

\* C6: a RemoveSSHConfigEntry(N) that directly follows a successful
\* AddSSHConfigEntry(N) restores the document the add started from, up to
\* trailing blank lines.
C6_AddThenRemoveRestores ==
    [][(/\ call.op = "AddSSHConfigEntry" /\ call.err = ""
        /\ call'.op = "RemoveSSHConfigEntry" /\ call'.name = call.name)
       => Normalized(sshConfig') = Normalized(call.before)]_vars

\* the complete document a call is to install, given the bytes it read
NewContent(op, accountName, configData) ==
    IF op = "AddSSHConfigEntry"
    THEN addUpdatedConfig(configData, accountName, selectKeyFile(keyFiles, accountName))
    ELSE removeUpdatedConfig(configData, accountName)

\* C7: while a call runs step by step, with write and rename failures and a
\* crash possible at every step, the real path holds the pre-call document
\* until the rename and the complete new document after it; a failed or
\* crashed call leaves one of the two, never a partial document.
C7_RealPathOldOrNew ==
    /\ proc.pc \in {"read", "backup", "temp", "rename"} => sshConfig = proc.before
    /\ proc.pc = "cleanup" =>
          sshConfig = (IF proc.err = ""
                       THEN File(NewContent(proc.op, proc.name, readExisting(proc.before)))
                       ELSE proc.before)
    /\ (proc.pc = "idle" /\ call.op # "none") =>
          IF call.err = "" /\ call.io = MutatingIO
          THEN sshConfig = File(NewContent(call.op, call.name, readExisting(call.before)))
          ELSE IF call.err = "crashed" /\ Len(call.io) = 3
          THEN sshConfig \in {call.before,
                              File(NewContent(call.op, call.name, readExisting(call.before)))}
          ELSE sshConfig = call.before

\* a call was interrupted while the temp file was partly written: the temp
\* path holds a truncated document, the real path the pre-call document
C7_Witness ==
    /\ proc.pc = "idle"
    /\ call.err \in {"crashed", "failed to write temporary SSH config"}
    /\ tempFile.exists
    /\ tempFile # File(NewContent(call.op, call.name, readExisting(call.before)))
    /\ sshConfig = call.before
    /\ sshConfig.data # ""

\* C8 as stated: when another writer changed the document between the read
\* and the rename of a call that succeeds, the document after the rename
\* holds the other writer's stanza and the call's own change.
C8_ExternalChangeSurvives ==
    (proc.pc = "cleanup" /\ proc.err = "" /\ proc.raced)
    => /\ Contains(sshConfig.data, ExternalStanza)
       /\ (proc.op = "AddSSHConfigEntry" => HasBlock(sshConfig, proc.name))

\* C8 amended: the rename installs the content derived from the bytes the
\* call read, whatever the document holds by then; a stanza another writer
\* added between the read and the rename is not in the document afterwards.
C8_RenameInstallsWhatWasRead ==
    [][(proc.pc = "rename" /\ proc'.pc = "cleanup" /\ proc'.err = "")
       => /\ sshConfig' = File(NewContent(proc.op, proc.name, proc.configData))
          /\ (proc.raced /\ ~Contains(proc.configData, ExternalStanza))
                => ~Contains(sshConfig'.data, ExternalStanza)]_vars

\* a successful rename has just overwritten another writer's stanza
C8_Witness ==
    /\ proc.pc = "cleanup"
    /\ proc.err = ""
    /\ proc.raced
    /\ ~Contains(sshConfig.data, ExternalStanza)
    /\ (proc.op = "AddSSHConfigEntry" => HasBlock(sshConfig, proc.name))

-----------------------------------------------------------------------------
(* The account store                                                       *)

\* the member `active` of a persisted document is the empty string or a key
\* of the object under `entries`
ActiveNamesEntry(j, active, entries) ==
    LET ref == Member(j, active)
        map == Member(j, entries)
    IN  /\ ref.t = "string"
        /\ ref.s = "" \/ (map.t = "object" /\ ref.s \in DOMAIN map.o)

\* config.json holds a document whose active account and active profile
\* each name nothing or an entry
NoDanglingActive(file) ==
    /\ file.exists
    /\ file.parses
    /\ file.json.t = "object"
    /\ ActiveNamesEntry(file.json, "active_account", "accounts")
    /\ ActiveNamesEntry(file.json, "active_profile", "profiles")

\* config.json holds no document, or one without a dangling active name
NoDocumentOrNoDangling(file) == (file.exists /\ file.parses) => NoDanglingActive(file)

\* a name that is set and is no key of the map
Dangling(ref, map) == ref # "" /\ ref \notin DOMAIN map.m

\* the document with its dangling active names cleared
Cleared(D) ==
    [D EXCEPT !.ActiveAccount = IF Dangling(@, D.Accounts) THEN "" ELSE @,
              !.ActiveProfile = IF Dangling(@, D.Profiles) THEN "" ELSE @]

\* the document with empty maps for nil accounts and profiles
MapsMade(D) ==
    [D EXCEPT !.Accounts = IF @.nil THEN [nil |-> FALSE, m |-> @.m] ELSE @,
              !.Profiles = IF @.nil THEN [nil |-> FALSE, m |-> @.m] ELSE @]

\* a LoadConfig that reads the file a successful SaveConfig has just written
LoadAfterSave ==
    /\ store.op = "SaveConfig"
    /\ store.saved
    /\ store'.op = "LoadConfig"
    /\ store'.fault = "none"

\* C9: every document a command saves has an active account that is empty
\* or a key of accounts and an active profile that is empty or a key of
\* profiles; and a command that finds config.json without a dangling active
\* name (or without a document) leaves it so, whether it saves, fails or is
\* cut short, so the property persists through any sequence of create,
\* delete, use and profile commands.
C9_SavedDocumentHasNoDanglingActive ==
    /\ store.saved => NoDanglingActive(configFile)
    /\ (store.op # "none" /\ NoDocumentOrNoDangling(store.before))
          => NoDocumentOrNoDangling(configFile)

\* CreateAccount loaded a hand-edited document whose active account names no
\* entry, added its account and saved: the persisted active account is empty
C9_Witness ==
    /\ store.op = "CreateAccount"
    /\ store.saved
    /\ Dangling(store.loaded.ActiveAccount, store.loaded.Accounts)
    /\ Dangling(store.config.ActiveAccount, store.config.Accounts)
    /\ Member(configFile.json, "active_account") = JString("")
    /\ store.name \in DOMAIN Member(configFile.json, "accounts").o

\* C10 as stated: LoadConfig after SaveConfig(D) yields D with its dangling
\* active account / active profile cleared and nothing else changed, for
\* any document D; and saving a loaded document and loading it again yields
\* the same document.
C10_LoadAfterSaveIsDCleared ==
    [][LoadAfterSave
       => /\ store'.loaded = Cleared(store.config)
          /\ (store.config = store.loaded /\ store.loaded # ZeroConfig)
                => store'.loaded = store.config]_vars

\* C10 amended: LoadConfig after SaveConfig(D) yields D with its dangling
\* active account / active profile cleared and with an empty map in the
\* place of a nil accounts or profiles map (a nil accounts map inside a
\* profile stays nil); and saving a loaded document and loading it again
\* yields the same document.
C10_LoadAfterSaveIsDClearedMapsMade ==
    [][LoadAfterSave
       => /\ store'.loaded = MapsMade(Cleared(store.config))
          /\ (store.config = store.loaded /\ store.loaded # ZeroConfig)
                => store'.loaded = store.config]_vars

\* a document with an account, an active account naming no entry and nil
\* profiles was saved and loaded back: the file holds null for the profiles,
\* the loaded document an empty map, the account and no active account
C10_Witness ==
    /\ store.op = "LoadConfig"
    /\ store.fault = "none"
    /\ store.config.Profiles.nil
    /\ store.config.Accounts.m # NoEntries
    /\ Dangling(store.config.ActiveAccount, store.config.Accounts)
    /\ configFile.parses
    /\ Member(configFile.json, "profiles") = JNull
    /\ Member(configFile.json, "active_account") = JString("")
    /\ store.loaded.Accounts = store.config.Accounts
    /\ store.loaded.ActiveAccount = ""
    /\ store.loaded.Profiles = MakeMap

\* a fresh empty document: no accounts, no profiles, nothing active, both
\* maps made
EmptyDocument ==
    [Accounts |-> [nil |-> FALSE, m |-> NoEntries], ActiveAccount |-> "",
     Profiles |-> [nil |-> FALSE, m |-> NoEntries], ActiveProfile |-> ""]

\* C11: LoadConfig returns no error; for a missing, unreadable or malformed
\* config.json, and for JSON text that does not decode into a document, it
\* returns a fresh empty document; and whatever the file holds, the accounts
\* and profiles maps of the returned document are not nil.
C11_LoadConfigNeverFails ==
    store.op = "LoadConfig"
    => /\ store.err = ""
       /\ ~store.loaded.Accounts.nil
       /\ ~store.loaded.Profiles.nil
       /\ (~configFile.exists \/ store.fault = "read config" \/ ~configFile.parses
            \/ configFile \in NotADocument)
             => store.loaded = EmptyDocument

\* a hand-edited config.json without accounts and profiles members was
\* loaded: the active account is the file's, both maps are made and empty
C11_Witness ==
    /\ store.op = "LoadConfig"
    /\ store.fault = "none"
    /\ configFile.parses
    /\ configFile.json.t = "object"
    /\ Member(configFile.json, "accounts") = JNull
    /\ Member(configFile.json, "active_account") = JString("w")
    /\ store.loaded.ActiveAccount = "w"
    /\ store.loaded.Accounts = [nil |-> FALSE, m |-> NoEntries]
    /\ store.loaded.Profiles = [nil |-> FALSE, m |-> NoEntries]

\* the account is in the document config.json held before the call
StoredBefore(name) ==
    /\ store.before.exists
    /\ store.before.parses
    /\ store.before.json.t = "object"
    /\ Member(store.before.json, "accounts").t = "object"
    /\ name \in DOMAIN Member(store.before.json, "accounts").o

\* the arguments of the call pass the three checks on their shape
ValidArguments ==
    store.name # "" /\ store.email # "" /\ Contains(store.email, "@")

\* C12: the error of CreateAccount is that of the first failing check in
\* the order name non-empty, email non-empty, email contains "@", name not
\* in the loaded store, whatever the later checks would find; the duplicate
\* error is returned exactly when the three checks pass and the name is in
\* the loaded document.
C12_FirstFailingCheckWins ==
    store.op = "CreateAccount"
    => /\ store.name = "" => store.err = "account name cannot be empty"
       /\ (store.name # "" /\ store.email = "") => store.err = "email cannot be empty"
       /\ (store.name # "" /\ store.email # "" /\ ~Contains(store.email, "@"))
             => store.err = "invalid email format"
       /\ ValidArguments
             => /\ store.err = "account already exists"
                      <=> store.name \in DOMAIN store.loaded.Accounts.m
                /\ (StoredBefore(store.name) /\ store.fault # "read config")
                      => store.err = "account already exists"
       /\ store.err = "account already exists" => ValidArguments

\* CreateAccount was called with an empty email for a name that is stored:
\* the error is the email's, not the duplicate's
C12_Witness ==
    /\ store.op = "CreateAccount"
    /\ store.name # ""
    /\ store.email = ""
    /\ StoredBefore(store.name)
    /\ store.err = "email cannot be empty"

\* the errors of the checks CreateAccount makes before it acts
CheckErrors ==
    {"account name cannot be empty", "email cannot be empty", "invalid email format",
     "account already exists"}

\* the call leaves every file, the agent and git's configuration as they
\* were, has invoked no operation and has written no key file
NoSideEffect ==
    /\ keyFiles' = keyFiles
    /\ agentKeys' = agentKeys
    /\ sshConfig' = sshConfig
    /\ tempFile' = tempFile
    /\ backupFile' = backupFile
    /\ configFile' = configFile
    /\ gitConfig' = gitConfig
    /\ store'.steps = <<>>
    /\ store'.wrote = {}

\* C13: a CreateAccount that fails one of its checks (name, email, "@",
\* duplicate name) has had no side effect: no key file is written, the
\* agent is not called, the alias document and config.json are unchanged.
C13_FailedCheckHasNoSideEffect ==
    [][(calls' = calls + 1 /\ store'.op = "CreateAccount" /\ store'.err \in CheckErrors)
       => NoSideEffect]_vars

\* CreateAccount was refused for a name that is stored and whose key files
\* and alias entry exist: the files are there, config.json is as before
C13_Witness ==
    /\ store.op = "CreateAccount"
    /\ store.err = "account already exists"
    /\ store.steps = <<>>
    /\ ed25519KeyFile(store.name) \in keyFiles
    /\ HasBlock(sshConfig, store.name)
    /\ configFile = store.before

\* the key files the call wrote are in place
KeysInPlace == store'.wrote # {} /\ store'.wrote \subseteq keyFiles'

\* the key of the account is registered with the agent
KeyRegistered == ed25519KeyFile(store'.name) \in agentKeys'

\* the alias document ends with the entry of the account, naming its key file
EntryInPlace ==
    \E entry \in {hostEntry(store'.name, ed25519KeyFile(store'.name))} :
       /\ Len(sshConfig'.data) >= Len(entry)
       /\ SubSeq(sshConfig'.data, Len(sshConfig'.data) - Len(entry) + 1,
                 Len(sshConfig'.data)) = entry

\* config.json does not hold the new document: it is as before, or cut short
NotPersisted == configFile' \in {configFile, Malformed}

\* the account is in the document config.json holds after the call
Persisted ==
    /\ configFile'.parses
    /\ Member(configFile'.json, "accounts").t = "object"
    /\ store'.name \in DOMAIN Member(configFile'.json, "accounts").o
    /\ Member(configFile'.json, "accounts").o[store'.name]
          = JObject([name |-> JString(store'.name), email |-> JString(store'.email)])

\* C14: CreateAccount runs key generation, agent registration, alias entry,
\* record insertion and persist in this order; the error names the step
\* that failed, no later step has run, and what the earlier steps did is
\* still in place.
C14_StepsInOrderNoRollback ==
    [][(calls' = calls + 1 /\ store'.op = "CreateAccount" /\ store'.err \notin CheckErrors)
       => /\ store'.err = "failed to create SSH key"
             => /\ store'.steps = <<"CreateSSHKey">>
                /\ store'.wrote \subseteq keyFiles'
                /\ agentKeys' = agentKeys
                /\ sshConfig' = sshConfig /\ tempFile' = tempFile
                /\ configFile' = configFile
          /\ store'.err = "failed to add SSH key to agent"
             => /\ store'.steps = <<"CreateSSHKey", "AddSSHKeyToAgent">>
                /\ KeysInPlace
                /\ agentKeys' = agentKeys
                /\ sshConfig' = sshConfig /\ tempFile' = tempFile
                /\ configFile' = configFile
          /\ store'.err = "failed to add SSH config entry"
             => /\ store'.steps = <<"CreateSSHKey", "AddSSHKeyToAgent", "AddSSHConfigEntry">>
                /\ KeysInPlace
                /\ KeyRegistered
                /\ sshConfig' = sshConfig
                /\ configFile' = configFile
          /\ store'.err = "failed to save config"
             => /\ store'.steps = <<"CreateSSHKey", "AddSSHKeyToAgent", "AddSSHConfigEntry",
                                    "SaveConfig">>
                /\ KeysInPlace
                /\ KeyRegistered
                /\ EntryInPlace
                /\ NotPersisted
          /\ store'.err = ""
             => /\ store'.steps = <<"CreateSSHKey", "AddSSHKeyToAgent", "AddSSHConfigEntry",
                                    "SaveConfig">>
                /\ KeysInPlace
                /\ KeyRegistered
                /\ EntryInPlace
                /\ Persisted
          /\ store'.err \in {"failed to create SSH key", "failed to add SSH key to agent",
                              "failed to add SSH config entry", "failed to save config", ""}]_vars

\* CreateAccount failed at the persist step: the key files, the agent
\* registration and the alias entry are there, the account is not stored
C14_Witness ==
    /\ store.op = "CreateAccount"
    /\ store.err = "failed to save config"
    /\ store.wrote # {} /\ store.wrote \subseteq keyFiles
    /\ ed25519KeyFile(store.name) \in agentKeys
    /\ HasBlock(sshConfig, store.name)
    /\ ~configFile.parses

\* a CreateAccount that follows a successful CreateAccount with the same
\* arguments and meets no I/O failure
SecondCreateInARow ==
    /\ store.op = "CreateAccount"
    /\ store.err = ""
    /\ calls' = calls + 1
    /\ store'.op = "CreateAccount"
    /\ store'.name = store.name
    /\ store'.email = store.email
    /\ store'.fault = "none"

\* C15: CreateAccount called twice in a row for the same name: after the
\* first call succeeded the second fails with "already exists", writes no
\* key file, does not call the agent and leaves the alias document (and
\* every other file) untouched.
C15_SecondCreateIsDuplicate ==
    [][SecondCreateInARow
       => /\ store'.err = "account already exists"
          /\ NoSideEffect]_vars

\* the second of two CreateAccount calls was refused: the account, its key
\* pair, its agent registration and its alias entry are those of the first
C15_Witness ==
    /\ calls = 2
    /\ store.op = "CreateAccount"
    /\ store.fault = "none"
    /\ store.err = "account already exists"
    /\ store.steps = <<>>
    /\ store.wrote = {}
    /\ StoredBefore(store.name)
    /\ {ed25519KeyFile(store.name), ed25519KeyFile(store.name) \o ".pub"} \subseteq keyFiles
    /\ ed25519KeyFile(store.name) \in agentKeys
    /\ HasBlock(sshConfig, store.name)

\* a CreateAccount that follows a CreateAccount with the same arguments
\* which failed at a step after key generation, and meets no I/O failure
CreateAfterFailedCreate ==
    /\ store.op = "CreateAccount"
    /\ store.err \in {"failed to add SSH key to agent", "failed to add SSH config entry",
                       "failed to save config"}
    /\ store.wrote # {}
    /\ calls' = calls + 1
    /\ store'.op = "CreateAccount"
    /\ store'.name = store.name
    /\ store'.email = store.email
    /\ store'.fault = "none"

\* C16: after a CreateAccount that failed midway and left its key files, a
\* second CreateAccount for the same name fails with a duplicate-account or
\* duplicate-alias error before key generation is reached: CreateSSHKey is
\* not invoked and no key file is written again.
C16_RetryStopsBeforeKeyGeneration ==
    [][CreateAfterFailedCreate
       => /\ store'.err \in {"account already exists", "failed to add SSH config entry"}
          /\ store'.wrote = {}
          /\ \A i \in DOMAIN store'.steps : store'.steps[i] # "CreateSSHKey"]_vars

\* a DeleteAccount for a name that is not in the document it loaded
DeleteOfAbsent ==
    /\ calls' = calls + 1
    /\ store'.op = "DeleteAccount"
    /\ store'.name \notin DOMAIN store'.loaded.Accounts.m

\* C17: DeleteAccount for a name absent from the loaded store fails with
\* "does not exist" and has no side effect: DeleteSSHKey,
\* RemoveSSHConfigEntry and SaveConfig are not invoked, key files, alias
\* document and config.json are unchanged; and a name that config.json does
\* not hold is absent from the loaded store.
C17_DeleteOfAbsentHasNoSideEffect ==
    [][/\ DeleteOfAbsent => (store'.err = "account does not exist" /\ NoSideEffect)
       /\ (calls' = calls + 1 /\ store'.op = "DeleteAccount")
             => /\ store'.err = "account does not exist" => DeleteOfAbsent
                /\ (~StoredBefore(store.name))' => DeleteOfAbsent]_vars

\* DeleteAccount was refused for a name that is not stored while key files
\* whose names contain it exist: the files are still there
C17_Witness ==
    /\ store.op = "DeleteAccount"
    /\ store.err = "account does not exist"
    /\ store.steps = <<>>
    /\ ~StoredBefore(store.name)
    /\ \E f \in keyFiles : Contains(f, store.name)
    /\ configFile = store.before

\* a DeleteAccount for a name that is in the document it loaded
DeleteOfStored ==
    /\ calls' = calls + 1
    /\ store'.op = "DeleteAccount"
    /\ store'.name \in DOMAIN store'.loaded.Accounts.m

\* the name is not in the document config.json holds after the call
Removed ==
    /\ configFile'.parses
    /\ Member(configFile'.json, "accounts").t = "object"
    /\ store'.name \notin DOMAIN Member(configFile'.json, "accounts").o

\* C18 as stated: DeleteAccount for a stored name fails only when the
\* persist step fails, whatever DeleteSSHKey and RemoveSSHConfigEntry do;
\* after a success the name is not in config.json and its active account
\* is empty if it was the name and the one loaded otherwise.
C18_ActiveAccountUnchangedOtherwise ==
    [][DeleteOfStored
       => /\ store'.err \in {"", "failed to save config"}
          /\ store'.err = "" <=> store'.saved
          /\ store'.err = "failed to save config" <=> store'.fault = "write config"
          /\ store'.saved
                => /\ Removed
                   /\ Member(configFile'.json, "active_account")
                         = JString(IF store'.loaded.ActiveAccount = store'.name THEN ""
                                   ELSE store'.loaded.ActiveAccount)]_vars

\* C18 amended: as stated, except that the active account is also empty
\* after the call when the one loaded named no account.
C18_ActiveAccountKeptIfStored ==
    [][DeleteOfStored
       => /\ store'.err \in {"", "failed to save config"}
          /\ store'.err = "" <=> store'.saved
          /\ store'.err = "failed to save config" <=> store'.fault = "write config"
          /\ store'.saved
                => /\ Removed
                   /\ Member(configFile'.json, "active_account")
                         = JString(IF store'.loaded.ActiveAccount = store'.name THEN ""
                                   ELSE IF Dangling(store'.loaded.ActiveAccount,
                                                    store'.loaded.Accounts) THEN ""
                                   ELSE store'.loaded.ActiveAccount)]_vars

\* DeleteAccount succeeded although the key files could not be removed: the
\* files are still there, the account is not in config.json
C18_Witness ==
    /\ store.op = "DeleteAccount"
    /\ store.fault = "remove key"
    /\ store.err = ""
    /\ store.saved
    /\ ed25519KeyFile(store.name) \in keyFiles
    /\ StoredBefore(store.name)
    /\ configFile.parses
    /\ store.name \notin DOMAIN Member(configFile.json, "accounts").o

-----------------------------------------------------------------------------
(* internal/ssh/ssh.go: CreateSSHKey and DeleteSSHKeyFile called directly    *)

\* a key file and its public key
KeyPair(keyFile) == {keyFile, keyFile \o ".pub"}

\* the errors of one DeleteSSHKeyFile, joined as lines 519 and 532 join them
JoinErrors(errs) ==
    IF errs = <<>> THEN ""
    ELSE IF Len(errs) = 1 THEN errs[1]
    ELSE errs[1] \o ", " \o errs[2]

\* a delete that takes a missing file for an error
DeleteSSHKeyFileOutcome_AbsentIsError(files, keyFile, fault) ==
    [err     |-> IF KeyPair(keyFile) \subseteq files THEN "" ELSE "no such file",
     files   |-> files \ KeyPair(keyFile),
     removed |-> KeyPair(keyFile) \cap files]

\* DeleteSSHKeyFile, lines 485-540: the private key, then the public key;
\* each is removed if os.Stat finds it, a file that is not there is skipped,
\* a failing os.Stat or os.Remove is remembered in lastErr and the call
\* goes on
DeleteSSHKeyFileOutcome(files, keyFile, fault) ==
    LET publicKeyFile == keyFile \o ".pub"
        privErr == IF fault = "stat private key" THEN <<"error checking private key">>
                   ELSE IF keyFile \in files /\ fault \in {"remove private key", "remove both keys"}
                   THEN <<"failed to remove private key">>
                   ELSE <<>>
        pubErr  == IF fault = "stat public key" THEN <<"error checking public key">>
                   ELSE IF publicKeyFile \in files
                           /\ fault \in {"remove public key", "remove both keys"}
                   THEN <<"failed to remove public key">>
                   ELSE <<>>
        removed == (IF privErr = <<>> THEN {keyFile} \cap files ELSE {})
                   \cup (IF pubErr = <<>> THEN {publicKeyFile} \cap files ELSE {})
    IN  [err |-> JoinErrors(privErr \o pubErr), files |-> files \ removed,
         removed |-> removed]

\* the record of a call of a key operation: its arguments, the failure it
\* met, its error, the files it found, wrote and removed, and the call
\* made before it; the passphrase and the private key block of a key
\* generation; whether every call so far returned no error, and whether
\* the run started with whole key pairs only
KeysCall(op, accountName, keyFile, keyType, fault, err, found, wrote, removed, last) ==
    [op |-> op, name |-> accountName, keyFile |-> keyFile, keyType |-> keyType,
     fault |-> fault, err |-> err, found |-> found, wrote |-> wrote,
     removed |-> removed, last |-> last,
     passphrase |-> "", pem |-> NoPEM, ok |-> TRUE, fromPairs |-> TRUE]

NoLastCall == [op |-> "none", keyFile |-> "", err |-> ""]

NoKeysCall == KeysCall("none", "", "", "", "none", "", {}, {}, {}, NoLastCall)

\* a key file outside ~/.ssh
OtherKeyFile == HomeDir \o "/keys/k"

\* the key paths of the runs: those of the first two names and the other
\* key file
KeyPaths ==
    {ed25519KeyFile(AllNames[1]), rsaKeyFile(AllNames[1]), ed25519KeyFile(AllNames[2]),
     OtherKeyFile}

\* every key path has both of its files or none
Paired(files) == \A path \in KeyPaths : path \in files <=> (path \o ".pub") \in files

\* the record of a call, with what it adds to the history of the run
Recorded(rec, pem, passphrase) ==
    [rec EXCEPT !.pem = pem, !.passphrase = passphrase,
                !.ok = store.ok /\ rec.err = "",
                !.fromPairs = store.fromPairs,
                !.last = [op |-> store.op, keyFile |-> store.keyFile, err |-> store.err]]

\* the arguments DeleteSSHKey is called with: account names, one of them a
\* single letter, and the path of a key file
DeleteSSHKeyArguments == {AllNames[1], AllNames[2], "b", OtherKeyFile}

\* the passphrases handed to the interface
KeyPassphrases == {"", "pw"}

\* key types: none given, the two constants of ssh_interface.go, others
KeyTypes == {"", "rsa", "ed25519", "dsa", "RSA"}

KeyWriteFaults == {"none", "write private key", "write public key"}

KeyRemoveFaults ==
    {"none", "stat private key", "stat public key", "remove private key",
     "remove public key", "remove both keys"}

CallCreateSSHKey(accountName, keyFile, keyType, fault) ==
    /\ calls < MaxStoreCalls
    /\ \E r \in {CreateSSHKeyOutcome(keyFiles, accountName, keyFile, keyType, fault)} :
          /\ keyFiles' = r.keys
          /\ store' = Recorded(KeysCall("CreateSSHKey", accountName, keyFile, keyType,
                                        IF r.err \in {"failed to write private key",
                                                      "failed to write public key"}
                                        THEN fault ELSE "none",
                                        r.err, keyFiles, r.wrote, {}, NoLastCall),
                               r.pem, "")
    /\ calls' = calls + 1
    /\ UNCHANGED <<sshConfig, backupFile, tempFile, call, proc, external, configFile,
                   agentKeys, gitConfig>>

\* SSHOperations.CreateSSHKey of DefaultSSH, ssh_interface.go lines 26-28
CallDefaultSSHCreateSSHKey(accountName, passphrase, keyType, fault) ==
    /\ calls < MaxStoreCalls
    /\ \E r \in {DefaultSSHCreateSSHKey(keyFiles, accountName, passphrase, keyType, fault)} :
          /\ keyFiles' = r.keys
          /\ store' = Recorded(KeysCall("DefaultSSH.CreateSSHKey", accountName, "", keyType,
                                        IF r.err \in {"failed to write private key",
                                                      "failed to write public key"}
                                        THEN fault ELSE "none",
                                        r.err, keyFiles, r.wrote, {}, NoLastCall),
                               r.pem, passphrase)
    /\ calls' = calls + 1
    /\ UNCHANGED <<sshConfig, backupFile, tempFile, call, proc, external, configFile,
                   agentKeys, gitConfig>>

\* DeleteSSHKey, lines 383-482, on the key files; when os.Remove fails the
\* files stay and the error is returned
CallDeleteSSHKey(accountOrKeyFile, fault) ==
    /\ calls < MaxStoreCalls
    /\ \E removed \in {DeleteSSHKey(keyFiles, accountOrKeyFile)} :
       \E failed \in {removed # {} /\ fault = "remove key"} :
          /\ keyFiles' = IF failed THEN keyFiles ELSE keyFiles \ removed
          /\ store' = Recorded(KeysCall("DeleteSSHKey", accountOrKeyFile, "", "",
                                        IF failed THEN fault ELSE "none",
                                        IF failed THEN "failed to delete key" ELSE "",
                                        keyFiles, {},
                                        IF failed THEN {} ELSE removed, NoLastCall),
                               NoPEM, "")
    /\ calls' = calls + 1
    /\ UNCHANGED <<sshConfig, backupFile, tempFile, call, proc, external, configFile,
                   agentKeys, gitConfig>>

CallDeleteSSHKeyFile(keyFile, fault) ==
    /\ calls < MaxStoreCalls
    /\ \E r \in {DeleteSSHKeyFileOutcome(keyFiles, keyFile, fault)} :
          /\ keyFiles' = r.files
          /\ store' = Recorded(KeysCall("DeleteSSHKeyFile", "", keyFile, "",
                                        IF r.err # "" THEN fault ELSE "none",
                                        r.err, keyFiles, {}, r.removed, NoLastCall),
                               NoPEM, "")
    /\ calls' = calls + 1
    /\ UNCHANGED <<sshConfig, backupFile, tempFile, call, proc, external, configFile,
                   agentKeys, gitConfig>>

NextKeys ==
    \/ \E keyFile \in {"", OtherKeyFile}, keyType \in KeyTypes, fault \in KeyWriteFaults :
          CallCreateSSHKey(AllNames[1], keyFile, keyType, fault)
    \/ \E keyFile \in {ed25519KeyFile(AllNames[1]), rsaKeyFile(AllNames[1]),
                       OtherKeyFile},
          fault \in KeyRemoveFaults :
          CallDeleteSSHKeyFile(keyFile, fault)
    \/ \E accountOrKeyFile \in DeleteSSHKeyArguments, fault \in {"none", "remove key"} :
          CallDeleteSSHKey(accountOrKeyFile, fault)

\* the key files a run of the key operations starts with: of the ED25519
\* pair of the account any part, the other key file with or without its
\* public key, and the pair of a second account or not
InitKeys ==
    /\ sshConfig = NoFile
    /\ backupFile = NoFile
    /\ tempFile = NoFile
    /\ keyFiles \in {a \cup b \cup c :
                       a \in SUBSET KeyPair(ed25519KeyFile(AllNames[1])),
                       b \in {{}, {OtherKeyFile}, KeyPair(OtherKeyFile)},
                       c \in {{}, KeyPair(ed25519KeyFile(AllNames[2]))}}
    /\ call = NoCall
    /\ calls = 0
    /\ proc = Idle
    /\ external = 0
    /\ configFile = NoConfigFile
    /\ agentKeys = {}
    /\ gitConfig = NoGitConfig
    /\ store = [NoKeysCall EXCEPT !.fromPairs = Paired(keyFiles)]

SpecKeys == InitKeys /\ [][NextKeys]_vars

NextInterface ==
    \E passphrase \in KeyPassphrases, keyType \in KeyTypes, fault \in KeyWriteFaults :
       CallDefaultSSHCreateSSHKey(AllNames[1], passphrase, keyType, fault)

\* identities created through the SSHOperations interface
SpecInterface == InitKeys /\ [][NextInterface]_vars

-----------------------------------------------------------------------------
(* C19, C20: the key operations                                            *)

\* C19: DeleteSSHKeyFile is an idempotent delete.  A call that meets no
\* failure returns no error whichever of the two files is absent and
\* leaves neither of them; made right after a call on the same path that
\* returned no error, it changes nothing.
C19_DeleteSSHKeyFileIdempotent ==
    (store.op = "DeleteSSHKeyFile" /\ store.fault = "none")
    => /\ store.err = ""
       /\ keyFiles = store.found \ KeyPair(store.keyFile)
       /\ store.removed = store.found \cap KeyPair(store.keyFile)
       /\ (/\ store.last.op = "DeleteSSHKeyFile"
           /\ store.last.keyFile = store.keyFile
           /\ store.last.err = "")
          => (store.removed = {} /\ keyFiles = store.found)

\* a second DeleteSSHKeyFile right after a first one on the same path that
\* had removed the files: no error, nothing removed
C19_Witness ==
    /\ calls = 2
    /\ store.op = "DeleteSSHKeyFile"
    /\ store.last.op = "DeleteSSHKeyFile"
    /\ store.last.keyFile = store.keyFile
    /\ store.last.err = ""
    /\ store.fault = "none"
    /\ store.err = ""
    /\ store.removed = {}
    /\ store.found # {}

\* C20 as stated: CreateSSHKey fails with the unsupported-key-type error
\* for every key type outside {rsa, ed25519} and then writes no key file.
C20_UnsupportedOutsideRsaEd25519 ==
    (store.op = "CreateSSHKey" /\ store.keyType \notin {"rsa", "ed25519"}
       /\ store.fault = "none")
    => /\ store.err = "unsupported key type"
       /\ store.wrote = {}
       /\ keyFiles = store.found

\* C20: CreateSSHKey fails with the unsupported-key-type error for every
\* non-empty key type outside {rsa, ed25519} and then writes no key file;
\* the empty key type is ED25519 and is not refused.
C20_UnsupportedNonEmptyOutsideRsaEd25519 ==
    /\ (store.op = "CreateSSHKey" /\ store.keyType \notin {"", "rsa", "ed25519"})
       => /\ store.err = "unsupported key type"
          /\ store.wrote = {}
          /\ keyFiles = store.found
    /\ (store.op = "CreateSSHKey" /\ store.keyType = "")
       => /\ store.err # "unsupported key type"
          /\ store.fault = "none"
             => /\ store.err = ""
                /\ store.wrote
                     = KeyPair(IF store.keyFile # "" THEN store.keyFile
                               ELSE ed25519KeyFile(store.name))
                /\ store.wrote \subseteq keyFiles

\* CreateSSHKey was called with the key type "dsa" for a key file that was
\* not there: it was refused and the file is still not there
C20_Witness ==
    /\ store.op = "CreateSSHKey"
    /\ store.keyType = "dsa"
    /\ store.keyFile = OtherKeyFile
    /\ store.err = "unsupported key type"
    /\ OtherKeyFile \notin store.found
    /\ KeyPair(OtherKeyFile) \cap keyFiles = {}

-----------------------------------------------------------------------------
(* C21 .. C23, C28: key files of identities                                *)

\* C21: an identity created through the SSHOperations interface has its
\* private key at <home>/.ssh/id_<algorithm>_<name> and its public key at
\* that path with ".pub", whatever the passphrase is.
C21_PassphraseDoesNotMoveKeyFiles ==
    (store.op = "DefaultSSH.CreateSSHKey" /\ store.err = "")
    => store.wrote = KeyPair(keyFilePath(store.name, "", store.keyType))

\* C22: the private key written for an identity is passphrase-encrypted if
\* and only if the passphrase is not empty.
C22_EncryptedIffPassphrase ==
    (store.op = "DefaultSSH.CreateSSHKey" /\ store.err = "")
    => (IsEncryptedPEMBlock(store.pem) <=> store.passphrase # "")

\* C23: from whole key pairs, after CreateSSHKey, DeleteSSHKey and
\* DeleteSSHKeyFile calls that all returned no error, every key path has
\* its private file if and only if it has its public file.
C23_KeyFilesInPairs ==
    (store.fromPairs /\ store.ok) => Paired(keyFiles)

\* the key files of an identity, of either algorithm
KeyFilesOf(accountName) ==
    KeyPair(ed25519KeyFile(accountName)) \cup KeyPair(rsaKeyFile(accountName))

\* C28: DeleteSSHKey called with an account name removes no key file of
\* another identity.
C28_DeleteSSHKeyKeepsOtherIdentities ==
    (store.op = "DeleteSSHKey" /\ store.name # OtherKeyFile)
    => \A other \in {AllNames[1], AllNames[2]} \ {store.name} :
          KeyFilesOf(other) \cap store.found \subseteq keyFiles

-----------------------------------------------------------------------------
(* C24: the agent after a delete                                           *)

\* C24: after a successful DeleteAccount the key of the account is no
\* longer registered with the agent.
C24_DeletedKeyLeavesAgent ==
    (store.op = "DeleteAccount" /\ store.err = "")
    => {ed25519KeyFile(store.name), rsaKeyFile(store.name)} \cap agentKeys = {}

-----------------------------------------------------------------------------
(* C25: GetActiveAccount                                                   *)

\* C25: GetActiveAccount returns the active name and its record when the
\* active account of the loaded document is stored, fails with "no active
\* account" when it is empty, and fails with a not-found error, returning
\* no name and no record, when it is set and not stored.
C25_GetActiveAccountCases ==
    store.op = "GetActiveAccount"
    => /\ store.loaded.ActiveAccount = ""
          => /\ store.err = "no active account"
             /\ store.name = "" /\ store.account.nil
       /\ (/\ store.loaded.ActiveAccount # ""
           /\ store.loaded.ActiveAccount \notin DOMAIN store.loaded.Accounts.m)
          => /\ store.err = "active account not found in config"
             /\ store.name = "" /\ store.account.nil
       /\ (/\ store.loaded.ActiveAccount # ""
           /\ store.loaded.ActiveAccount \in DOMAIN store.loaded.Accounts.m)
          => /\ store.err = ""
             /\ store.name = store.loaded.ActiveAccount
             /\ ~store.account.nil
             /\ store.account.v = store.loaded.Accounts.m[store.name]

\* GetActiveAccount on the hand-edited config.json whose active account
\* names no stored account: not found, no name, no record
C25_Witness ==
    /\ store.op = "GetActiveAccount"
    /\ configFile = HandEditedDangling
    /\ store.fault = "none"
    /\ store.loaded.ActiveAccount = "w"
    /\ store.err = "active account not found in config"
    /\ store.name = ""
    /\ store.account.nil

-----------------------------------------------------------------------------
(* C26: the three stores of an identity                                    *)

\* the account is in the document of config.json
InAccountStore(accountName) ==
    accountName \in DOMAIN LoadConfig(configFile, TRUE).Accounts.m

\* a key pair of the account exists
HasKeyFiles(accountName) ==
    \/ KeyPair(ed25519KeyFile(accountName)) \subseteq keyFiles
    \/ KeyPair(rsaKeyFile(accountName)) \subseteq keyFiles

\* for every name: in the account store if and only if its alias block is
\* in the alias document and its key files exist
StoresAgree ==
    \A n \in AccountNames :
       InAccountStore(n) <=> (HasBlock(sshConfig, n) /\ HasKeyFiles(n))

\* C26: after CreateAccount and DeleteAccount calls that all returned
\* success, the account store, the alias document and the key files agree
\* for every name (checked after the first call of a run; the runs start
\* with nothing created or with two identities created).
C26_StoresAgreeAfterSuccess ==
    (calls = 1 /\ store.err = "") => StoresAgree

-----------------------------------------------------------------------------
(* C27, C29: the key file an identity is created with                      *)

\* the private key files the call has written together with their public
\* key
PrivateKeysWritten == {path \in store.wrote : (path \o ".pub") \in store.wrote}

\* C27: after a successful creation the alias block of the identity names
\* the private key file that creation has written, also with key files of
\* the other algorithm left over.
C27_AliasNamesWrittenKey ==
    (store.op = "CreateAccount" /\ store.err = "")
    => \A path \in PrivateKeysWritten :
          Contains(sshConfig.data, hostEntry(store.name, path))

\* C29: the agent step of a creation registers the private key file the
\* key step of the same call has written; with a working agent and
\* filesystem it does not fail, for RSA and for ED25519.
C29_AgentRegistersWrittenKey ==
    (/\ store.op = "CreateAccount"
     /\ store.fault = "none"
     /\ Len(store.steps) >= 2
     /\ store.steps[2] = "AddSSHKeyToAgent")
    => /\ store.err # "failed to add SSH key to agent"
       /\ PrivateKeysWritten \subseteq agentKeys

-----------------------------------------------------------------------------
(* C30: what a failed CreateAccount persists                               *)

\* C30: a CreateAccount that returns an error has not added the name to
\* the persisted account store; a name is added only by a call in which
\* key generation, agent registration and alias insertion have succeeded.
C30_ErrorPersistsNoRecord ==
    store.op = "CreateAccount"
    => /\ (store.err # "" /\ InAccountStore(store.name)) => StoredBefore(store.name)
       /\ (InAccountStore(store.name) /\ ~StoredBefore(store.name))
          => /\ store.err = ""
             /\ store.steps = <<"CreateSSHKey", "AddSSHKeyToAgent", "AddSSHConfigEntry",
                                "SaveConfig">>
             /\ store.wrote # {} /\ store.wrote \subseteq keyFiles
             /\ ed25519KeyFile(store.name) \in agentKeys
             /\ call.op = "AddSSHConfigEntry" /\ call.name = store.name /\ call.err = ""

\* CreateAccount failed at the alias step after the keys were written and
\* registered: config.json is as it was and does not hold the name
C30_Witness ==
    /\ store.op = "CreateAccount"
    /\ store.err = "failed to add SSH config entry"
    /\ store.wrote # {}
    /\ ed25519KeyFile(store.name) \in agentKeys
    /\ configFile = store.before
    /\ ~InAccountStore(store.name)

-----------------------------------------------------------------------------
(* C31: what a successful CreateAccount leaves of the previous document    *)

\* the document a reader finds in config.json
DocumentIn(file) == LoadConfig(file, TRUE)

\* C31: a CreateAccount(N) that returns success leaves every account stored
\* before the call stored with the same record, and leaves active_account,
\* profiles and active_profile as they were: the persisted accounts are the
\* previous accounts and N, whatever the load inside the call returned.
C31_CreateKeepsPreviousDocument ==
    (store.op = "CreateAccount" /\ store.err = "")
    => /\ DOMAIN DocumentIn(configFile).Accounts.m
              = DOMAIN DocumentIn(store.before).Accounts.m \cup {store.name}
       /\ \A n \in DOMAIN DocumentIn(store.before).Accounts.m :
              DocumentIn(configFile).Accounts.m[n] = DocumentIn(store.before).Accounts.m[n]
       /\ DocumentIn(configFile).Accounts.m[store.name] = Account(store.name, store.email)
       /\ DocumentIn(configFile).ActiveAccount = DocumentIn(store.before).ActiveAccount
       /\ DocumentIn(configFile).Profiles = DocumentIn(store.before).Profiles
       /\ DocumentIn(configFile).ActiveProfile = DocumentIn(store.before).ActiveProfile

-----------------------------------------------------------------------------
(* C32: the file operations of a mutating alias call                       *)

\* C32: in a mutating alias call the backup file is written with the
\* pre-call bytes of the document, then the temp file with the full new
\* document, then the temp file is renamed over the real path, then the
\* backup is removed; the backup holds the pre-call content from its write
\* to its removal, the real path changes nowhere else, and no backup file
\* is left when the call has returned success.
C32_BackupTempRenameRemove ==
    /\ proc.pc = "backup" => proc.io = <<>>
    /\ proc.pc = "temp" =>
          /\ proc.io = SubSeq(MutatingIO, 1, 1)
          /\ backupFile = File(readExisting(proc.before))
          /\ sshConfig = proc.before
    /\ proc.pc = "rename" =>
          /\ proc.io = SubSeq(MutatingIO, 1, 2)
          /\ backupFile = File(readExisting(proc.before))
          /\ tempFile = File(NewContent(proc.op, proc.name, readExisting(proc.before)))
          /\ sshConfig = proc.before
    /\ proc.pc = "cleanup" =>
          /\ backupFile = File(readExisting(proc.before))
          /\ proc.err = "" => /\ proc.io = SubSeq(MutatingIO, 1, 3)
                              /\ sshConfig = File(NewContent(proc.op, proc.name,
                                                             readExisting(proc.before)))
    /\ (proc.pc = "idle" /\ call.err = "" /\ call.io # <<>>) =>
          /\ call.io = MutatingIO
          /\ ~backupFile.exists

\* a call has rewritten a document that was there and returned success: the
\* four steps were taken and the backup is gone
C32_Witness ==
    /\ proc.pc = "idle"
    /\ call.err = ""
    /\ call.io = MutatingIO
    /\ call.before.exists
    /\ sshConfig # call.before
    /\ ~backupFile.exists
    /\ ~tempFile.exists

-----------------------------------------------------------------------------
(* C33: two CreateAccount calls in two processes                           *)

\* the two processes
Procs == {1, 2}

Other(i) == 3 - i

\* a process about to call CreateAccount(accountName, accountName@example, "")
Starting(accountName) ==
    [pc |-> "load", name |-> accountName, config |-> ZeroConfig, configData |-> "",
     updatedConfig |-> "", err |-> ""]

\* no process has renamed or saved yet, none has run beside the other
NoHistory == [lastRename |-> 0, lastSave |-> 0, overlapped |-> FALSE]

\* process i returns err from CreateAccount
ReturnBy(i, err) == proc' = [proc EXCEPT ![i].pc = "done", ![i].err = err]

\* account.go lines 52-56: config := LoadConfig() and the duplicate check
LoadConfigBy(i) ==
    /\ proc[i].pc = "load"
    /\ \E config \in {LoadConfig(configFile, TRUE)} :
          IF Exists(config.Accounts, proc[i].name)
          THEN ReturnBy(i, "account already exists")
          ELSE proc' = [proc EXCEPT ![i].pc = "key", ![i].config = config]
    /\ call' = [call EXCEPT !.overlapped = @ \/ proc[Other(i)].pc \notin {"load", "done"}]
    /\ UNCHANGED <<sshConfig, backupFile, tempFile, keyFiles, calls, external, storeVars>>

\* account.go lines 58-66: CreateSSHKey, then AddSSHKeyToAgent
CreateSSHKeyBy(i) ==
    /\ proc[i].pc = "key"
    /\ \E k \in {CreateSSHKeyOutcome(keyFiles, proc[i].name, "", "", "none")} :
       \E a \in {AddSSHKeyToAgentOutcome(k.keys, agentKeys, proc[i].name, "none")} :
          /\ keyFiles' = k.keys
          /\ agentKeys' = a.agent
          /\ IF k.err # "" THEN ReturnBy(i, "failed to create SSH key")
             ELSE IF a.err # "" THEN ReturnBy(i, "failed to add SSH key to agent")
             ELSE proc' = [proc EXCEPT ![i].pc = "read"]
    /\ UNCHANGED <<sshConfig, backupFile, tempFile, call, calls, external, configFile,
                   gitConfig, store>>

\* ssh.go lines 320-358: AddSSHConfigEntry selects the key file, reads the
\* document and looks for the host
ReadConfigBy(i) ==
    /\ proc[i].pc = "read"
    /\ \E privateKeyFile \in {selectKeyFile(keyFiles, proc[i].name)} :
       \E configData \in {readExisting(sshConfig)} :
          IF privateKeyFile = "" \/ containsHost(configData, hostPatternOf(proc[i].name))
          THEN ReturnBy(i, "failed to add SSH config entry")
          ELSE proc' = [proc EXCEPT ![i].pc = "backup", ![i].configData = configData,
                           ![i].updatedConfig = addUpdatedConfig(configData, proc[i].name,
                                                                 privateKeyFile)]
    /\ UNCHANGED <<sshConfig, backupFile, tempFile, keyFiles, call, calls, external,
                   storeVars>>

\* ssh.go lines 360-365: the backup, at the path both processes use
WriteBackupBy(i) ==
    /\ proc[i].pc = "backup"
    /\ backupFile' = File(proc[i].configData)
    /\ proc' = [proc EXCEPT ![i].pc = "temp"]
    /\ UNCHANGED <<sshConfig, tempFile, keyFiles, call, calls, external, storeVars>>

\* ssh.go lines 367-371: the temp file, at the path both processes use
WriteTempBy(i) ==
    /\ proc[i].pc = "temp"
    /\ tempFile' = File(proc[i].updatedConfig)
    /\ proc' = [proc EXCEPT ![i].pc = "rename"]
    /\ UNCHANGED <<sshConfig, backupFile, keyFiles, call, calls, external, storeVars>>

\* a rename that installs the block appended to the document as it is by
\* then, not the temp file
RenameTempBy_Rereads(i) ==
    /\ proc[i].pc = "rename"
    /\ IF tempFile.exists
       THEN /\ sshConfig' = File(addUpdatedConfig(readExisting(sshConfig), proc[i].name,
                                                  selectKeyFile(keyFiles, proc[i].name)))
            /\ tempFile' = NoFile
            /\ call' = [call EXCEPT !.lastRename = i]
            /\ proc' = [proc EXCEPT ![i].pc = "cleanup"]
       ELSE /\ proc' = [proc EXCEPT ![i].pc = "cleanup",
                                    ![i].err = "failed to add SSH config entry"]
            /\ UNCHANGED <<sshConfig, tempFile, call>>
    /\ UNCHANGED <<backupFile, keyFiles, calls, external, storeVars>>

\* ssh.go lines 373-376: os.Rename fails when the other process has renamed
\* the temp file away
RenameTempBy(i) ==
    /\ proc[i].pc = "rename"
    /\ IF tempFile.exists
       THEN /\ sshConfig' = tempFile
            /\ tempFile' = NoFile
            /\ call' = [call EXCEPT !.lastRename = i]
            /\ proc' = [proc EXCEPT ![i].pc = "cleanup"]
       ELSE /\ proc' = [proc EXCEPT ![i].pc = "cleanup",
                                    ![i].err = "failed to add SSH config entry"]
            /\ UNCHANGED <<sshConfig, tempFile, call>>
    /\ UNCHANGED <<backupFile, keyFiles, calls, external, storeVars>>

\* ssh.go line 365: the deferred os.Remove(backupFile), its error ignored;
\* account.go lines 69-79: the error is returned or the record is added
RemoveBackupBy(i) ==
    /\ proc[i].pc = "cleanup"
    /\ backupFile' = NoFile
    /\ IF proc[i].err # ""
       THEN ReturnBy(i, proc[i].err)
       ELSE proc' = [proc EXCEPT ![i].pc = "save",
                        ![i].config.Accounts =
                            MapPut(IF @.nil THEN MakeMap ELSE @, proc[i].name,
                                   Account(proc[i].name, proc[i].name \o "@example"))]
    /\ UNCHANGED <<sshConfig, tempFile, keyFiles, call, calls, external, storeVars>>

\* account.go line 241: os.WriteFile opens config.json with O_TRUNC
TruncateConfigBy(i) ==
    /\ proc[i].pc = "save"
    /\ configFile' = Malformed
    /\ proc' = [proc EXCEPT ![i].pc = "write"]
    /\ UNCHANGED <<sshConfig, backupFile, tempFile, keyFiles, call, calls, external,
                   agentKeys, gitConfig, store>>

\* account.go lines 213-246: the document of this process is written whole
WriteConfigBy(i) ==
    /\ proc[i].pc = "write"
    /\ configFile' = SaveConfigToFile(proc[i].config)
    /\ call' = [call EXCEPT !.lastSave = i]
    /\ ReturnBy(i, "")
    /\ UNCHANGED <<sshConfig, backupFile, tempFile, keyFiles, calls, external,
                   agentKeys, gitConfig, store>>

NextConcurrent ==
    \E i \in Procs :
        \/ LoadConfigBy(i)
        \/ CreateSSHKeyBy(i)
        \/ ReadConfigBy(i)
        \/ WriteBackupBy(i)
        \/ WriteTempBy(i)
        \/ RenameTempBy(i)
        \/ RemoveBackupBy(i)
        \/ TruncateConfigBy(i)
        \/ WriteConfigBy(i)

\* two processes with distinct account names, nothing created yet
InitConcurrent ==
    /\ sshConfig \in {NoFile, File(UserStanza)}
    /\ backupFile = NoFile
    /\ tempFile = NoFile
    /\ keyFiles = {}
    /\ call = NoHistory
    /\ calls = 0
    /\ \E first \in {AllNames[1], AllNames[3]}, second \in {AllNames[2], AllNames[3]} :
          /\ first # second
          /\ proc = [i \in Procs |-> Starting(IF i = 1 THEN first ELSE second)]
    /\ external = 0
    /\ configFile \in {NoConfigFile, SaveConfigToFile(NewConfig)}
    /\ agentKeys = {}
    /\ gitConfig = NoGitConfig
    /\ store = NoStoreCall

\* two CreateAccount calls whose file operations interleave
SpecConcurrent == InitConcurrent /\ [][NextConcurrent]_vars

\* both calls have returned success
BothSucceeded == \A i \in Procs : proc[i].pc = "done" /\ proc[i].err = ""

\* C33 as stated: when two CreateAccount calls for distinct names run as
\* separate processes and both return success, the account store holds both
\* accounts and the alias document holds both managed blocks.
C33_BothCreatesPersist ==
    BothSucceeded
    => \A i \in Procs : /\ InAccountStore(proc[i].name)
                        /\ HasBlock(sshConfig, proc[i].name)

\* C33 amended: when both calls return success, each document is the one
\* its last writer derived from what it had read: it holds the last
\* writer's entry, and the entry of the other call exactly when that entry
\* was in the document the last writer read; both accounts and both blocks
\* are there when the calls did not run beside each other, and one account
\* is missing from the store when one call loaded config.json while the
\* other was between its load and the end of its save.
C33_LastWriterWins ==
    BothSucceeded
    => /\ call.lastSave \in Procs /\ call.lastRename \in Procs
       /\ configFile = SaveConfigToFile(proc[call.lastSave].config)
       /\ InAccountStore(proc[call.lastSave].name)
       /\ InAccountStore(proc[Other(call.lastSave)].name)
             <=> Exists(proc[call.lastSave].config.Accounts,
                        proc[Other(call.lastSave)].name)
       /\ sshConfig = File(proc[call.lastRename].updatedConfig)
       /\ HasBlock(sshConfig, proc[call.lastRename].name)
       /\ HasBlock(sshConfig, proc[Other(call.lastRename)].name)
             <=> HasBlock(File(proc[call.lastRename].configData),
                          proc[Other(call.lastRename)].name)
       /\ ~call.overlapped => C33_BothCreatesPersist
       /\ call.overlapped => \E i \in Procs : ~InAccountStore(proc[i].name)

\* both calls returned success and the account of the call that saved first
\* is not in the account store
C33_Witness ==
    /\ BothSucceeded
    /\ call.lastSave \in Procs
    /\ InAccountStore(proc[call.lastSave].name)
    /\ ~InAccountStore(proc[Other(call.lastSave)].name)

-----------------------------------------------------------------------------
(* C34: DeleteAccount again after a save that failed                       *)

\* the ways os.WriteFile of config.json fails in DeleteAccount
PersistFaults == {"open config", "write config"}

NextRetry ==
    \E n \in AccountNames, f \in {"none"} \cup PersistFaults : DeleteAccount(n, f)

\* DeleteAccount calls in a row, the save failing or not, from nothing
\* created or two identities created
SpecRetry == InitLifecycle /\ [][NextRetry]_vars

\* the call just made is DeleteAccount and it failed at SaveConfig
FailedAtPersist(s) == s.op = "DeleteAccount" /\ s.err = "failed to save config"

\* C34: when DeleteAccount(N) fails at the persist step, the persisted
\* store still holds N, its key files and alias entry being removed; a
\* DeleteAccount(N) that follows with working persistence returns success
\* and removes N from the store.
C34_DeleteIsRetrySafe ==
    [][/\ FailedAtPersist(store')
          => store'.name \in DOMAIN LoadConfig(configFile', TRUE).Accounts.m
       /\ (/\ FailedAtPersist(store)
           /\ store'.op = "DeleteAccount"
           /\ store'.name = store.name
           /\ store'.fault = "none")
          => /\ store'.err = ""
             /\ store'.name \notin DOMAIN LoadConfig(configFile', TRUE).Accounts.m]_vars

-----------------------------------------------------------------------------
(* C35: the key named in core.sshCommand                                   *)

\* the path after "ssh -i " in the command use hands to git, "~" being the
\* home directory
IdentityFileOf(sshCommand) ==
    LET path == SubSeq(sshCommand, Len("ssh -i ") + 1,
                       Len(sshCommand) - Len(" -F /dev/null"))
    IN  IF HasPrefix(path, "~/") THEN HomeDir \o SubSeq(path, 2, Len(path)) ELSE path

\* C35: after a successful create of N followed by a successful use N, the
\* private-key path in git's core.sshCommand is the path of the private key
\* file of N that the create wrote, and that file exists.
C35_SshCommandNamesWrittenKey ==
    [][(/\ store.op = "CreateAccount" /\ store.err = ""
        /\ store'.op = "use" /\ store'.err = ""
        /\ store'.name = store.name)
       => /\ IdentityFileOf(gitConfig'["core.sshCommand"]) \in store.wrote
          /\ IdentityFileOf(gitConfig'["core.sshCommand"]) \in keyFiles']_vars

-----------------------------------------------------------------------------
(* C36: use                                                                *)

\* the call being made is use
UseCall == calls' = calls + 1 /\ store'.op = "use"

-----------------------------------------------------------------------------
(* C37: removal of an entry without markers                                *)

\* the document holds a legacy entry of N: a Host line of N and no begin
\* marker of N
HasLegacyEntry(cfg, accountName) ==
    /\ cfg.exists
    /\ Positions(cfg, HostLine(accountName)) # {}
    /\ Positions(cfg, BeginMarker \o accountName) = {}

\* a line that starts a stanza: a Host line, or the begin marker of a
\* managed block
StartsStanza(line) ==
    HasPrefix(TrimSpace(line), "Host ") \/ HasPrefix(TrimSpace(line), BeginMarker)

\* the lines of the stanzas that follow the legacy entry of N
FollowingStanzas(cfg, accountName) ==
    LET lines  == Lines(cfg)
        first  == Min(Positions(cfg, HostLine(accountName)))
        starts == {j \in (first + 1)..Len(lines) : StartsStanza(lines[j])}
    IN  IF starts = {} THEN <<>> ELSE SubSeq(lines, Min(starts), Len(lines))

\* tail is the end of seq
EndsWith(seq, tail) ==
    /\ Len(tail) <= Len(seq)
    /\ SubSeq(seq, Len(seq) - Len(tail) + 1, Len(seq)) = tail

\* C37: RemoveSSHConfigEntry(N) removes a legacy entry of N, a bare
\* "Host github.com-N" line with its body and without markers: afterwards
\* no Host line of github.com-N is in the document, and the stanzas that
\* followed the entry are kept.
C37_LegacyEntryRemoved ==
    (call.op = "RemoveSSHConfigEntry" /\ HasLegacyEntry(call.before, call.name))
    => /\ call.err = ""
       /\ Positions(sshConfig, HostLine(call.name)) = {}
       /\ EndsWith(TextLines(Lines(sshConfig)),
                   TextLines(FollowingStanzas(call.before, call.name)))

====
